---------------------------- MODULE Spec2Model ----------------------------
(***************************************************************************)
(* Ledger and daily settlement of the investment/referral platform         *)
(* (src/controllers.js, src/models.js).                                    *)
(*                                                                         *)
(* The database is one record `db` holding the six collections.  A         *)
(* document's _id is its index in its collection; a user's referralCode    *)
(* is modelled by the same index (the code is generated and re-drawn until *)
(* unique, controllers.js:138-144).  Every controller is a function from   *)
(* the database and the request to the database after the request and the  *)
(* HTTP status sent.  A controller takes the extra input `failAt`: the     *)
(* ordinal of the store write of that request that throws (0: none).       *)
(* Writes before it are applied, the failing write is not, and control     *)
(* goes to the controller's catch block.  A process that dies between two  *)
(* writes leaves the same database as a failure of the second one.         *)
(*                                                                         *)
(* Money is in whole MT and rates are in percent; the amounts and rates    *)
(* enumerated below make every product exact (see Pct).                    *)
(* Dates are ticks, TicksPerDay ticks to the calendar day, tick 0 of a day *)
(* being midnight.                                                         *)
(* Document fields no controller decision reads are left out: password,    *)
(* lastLoginIp, lastLoginAt, createdAt, startDate, requestDate,            *)
(* confirmationMessage, walletAddress, plan name and the payment channel   *)
(* display fields of AdminConfig.                                          *)
(***************************************************************************)
EXTENDS Integers, Sequences, FiniteSets, TLC

VARIABLES
    db,     \* the MongoDB collections
    now,    \* the server clock, in ticks
    fails,  \* number of store failures injected so far
    procs,  \* requests in flight in the interleaved specification
    db0     \* the database the behaviour started from

vars == <<db, now, fails, procs, db0>>

---------------------------------------------------------------------------
(* Bounds of the model *)

MaxUsers == 3          \* users in the collection, the initial admin included
MaxDocs == 2           \* deposits, withdrawals and investments created
MaxFails == 1          \* store failures injected in one behaviour
MaxChanges == 1        \* administrative changes standing at one time
MaxDay == 60           \* the clock stops at the end of this day
WindowDays == 0        \* days followed tick by tick after each plan term
TicksPerDay == 2
LaterDays == 1         \* days ahead at which a later settlement run is tried

(* Program constants *)

DurationDays == 60             \* investmentPlanSchema.durationDays default
DefaultMinDeposit == 50        \* adminConfigSchema.minDepositAmount default
FallbackMinDeposit == 50       \* requestDeposit, when no config exists

NoId == 0

VisitorIds == 1..(MaxUsers - 1)
Phones == 1..(MaxUsers - 1)
AdminPhone == 0                \* '848441231'
AdminVisitorId == 0            \* 'initialAdminFingerprint'
AmountInputs == {-50, 0, 50, 100}

\* a * (r / 100): the product of an amount and a rate given in percent
Pct(a, r) == (a * r) \div 100

StartOfDay(t) == t - (t % TicksPerDay)

---------------------------------------------------------------------------
(* Documents *)

NewUser(phone, visitor, admin, inviter) ==
    [ phoneNumber |-> phone, balance |-> 0, bonusBalance |-> 0,
      status |-> "active", visitorId |-> visitor, isAdmin |-> admin,
      invitedBy |-> inviter, referredUsers |-> <<>>,
      activeInvestments |-> <<>>, depositHistory |-> <<>>,
      withdrawalHistory |-> <<>> ]

NewPlan(minA, maxA, rate) ==
    [ minAmount |-> minA, maxAmount |-> maxA, dailyProfitRate |-> rate,
      durationDays |-> DurationDays, isActive |-> TRUE ]

\* an investment whose last credit date is set to the midnight before
NewInvestmentAtMidnight(userId, planId, amount, rate, endDate, t) ==
    [ userId |-> userId, planId |-> planId, investedAmount |-> amount,
      dailyProfitRate |-> rate, endDate |-> endDate, currentProfit |-> 0,
      lastProfitCreditDate |-> StartOfDay(t), status |-> "active" ]

\* an investment whose last credit date is set to the day before activation
NewInvestmentCreditedYesterday(userId, planId, amount, rate, endDate, t) ==
    [ userId |-> userId, planId |-> planId, investedAmount |-> amount,
      dailyProfitRate |-> rate, endDate |-> endDate, currentProfit |-> 0,
      lastProfitCreditDate |-> t - TicksPerDay, status |-> "active" ]

NewInvestment(userId, planId, amount, rate, endDate, t) ==
    [ userId |-> userId, planId |-> planId, investedAmount |-> amount,
      dailyProfitRate |-> rate, endDate |-> endDate, currentProfit |-> 0,
      lastProfitCreditDate |-> t, status |-> "active" ]

NewDeposit(userId, amount) ==
    [ userId |-> userId, amount |-> amount, status |-> "pending",
      approvalDate |-> NoId, adminId |-> NoId ]

NewWithdrawal(userId, amount) ==
    [ userId |-> userId, amount |-> amount, status |-> "pending",
      approvalDate |-> NoId, adminId |-> NoId ]

NewAdminConfig ==
    [ isPromotionActive |-> TRUE, commissionOnPlanActivation |-> 0,
      commissionOnDailyProfit |-> 0, minDepositAmount |-> DefaultMinDeposit ]

\* History of an investment, kept beside the collections (not program
\* state): how often settlement advanced its lastProfitCreditDate, how often
\* its daily profit reached the owner's stored balance, and how often its
\* commission reached the inviter's stored bonusBalance.
NewAudit == [ marked |-> 0, credited |-> 0, commission |-> 0 ]

\* userSchema: min 0 on balance and bonusBalance, checked by save()
ValidUser(u) == u.balance >= 0 /\ u.bonusBalance >= 0

Ids(coll) == 1..Len(coll)

\* the plans findById finds: those created and not deleted
PlanIds(d) == Ids(d.plans) \ d.removed

\* AdminConfig.findOne(); only called where HasConfig holds
HasConfig(d) == Len(d.configs) > 0
FindOneConfig(d) == d.configs[1]

\* what a controller returns: the database after the request, the status
\* code, the kind of error reported, and the document created or acted on
Done(d, code, id) == [ db |-> d, code |-> code, error |-> "none", id |-> id ]

Fail(d, code, error) ==
    [ db |-> d, code |-> code, error |-> error, id |-> NoId ]


RECURSIVE Ascending(_)
\* the members of a set of ids in the order find() returns them
Ascending(S) ==
    IF S = {} THEN <<>>
    ELSE LET m == CHOOSE x \in S : \A y \in S : x <= y
         IN <<m>> \o Ascending(S \ {m})

RECURSIVE Without(_, _)
\* array.filter(id => id !== x)
Without(seq, x) ==
    IF seq = <<>> THEN <<>>
    ELSE IF Head(seq) = x THEN Without(Tail(seq), x)
    ELSE <<Head(seq)>> \o Without(Tail(seq), x)

---------------------------------------------------------------------------
(* User controllers *)

\* User.find({ visitorId })
UsersWithVisitor(d, visitor) ==
    { u \in Ids(d.users) : d.users[u].visitorId = visitor }

RECURSIVE BlockLoop(_, _, _, _)
\* registerUser, the loop over the accounts that share the visitorId: each
\* active one is blocked and saved; w counts the saves made so far
BlockLoop(d, todo, w, failAt) ==
    IF todo = <<>> THEN [ db |-> d, failed |-> FALSE ]
    ELSE LET u == Head(todo)
         IN IF d.users[u].status = "active"
            THEN IF w + 1 = failAt
                 THEN [ db |-> d, failed |-> TRUE ]
                 ELSE BlockLoop([d EXCEPT !.users[u].status = "blocked"],
                                Tail(todo), w + 1, failAt)
            ELSE BlockLoop(d, Tail(todo), w, failAt)

\* a registration that does not look for accounts of the same device
registerUserAnyDevice(d, phone, visitor, invitedBy, failAt) ==
    LET inviting == IF invitedBy \in Ids(d.users) THEN invitedBy ELSE NoId
    IN IF \E u \in Ids(d.users) : d.users[u].phoneNumber = phone
       THEN Fail(d, 400, "PhoneTaken")
       ELSE IF inviting # NoId /\ d.users[inviting].visitorId = visitor
       THEN Fail(d, 400, "SameDevice")
       ELSE IF failAt = 1 THEN Fail(d, 500, "Internal")
       ELSE LET d1 == [d EXCEPT !.users =
                          Append(@, NewUser(phone, visitor, FALSE, inviting))]
                id == Len(d1.users)
            IN IF inviting = NoId THEN Done(d1, 201, id)
               ELSE IF failAt = 2 THEN Fail(d1, 500, "Internal")
               ELSE Done([d1 EXCEPT !.users[inviting].referredUsers =
                            Append(@, id)], 201, id)

registerUser(d, phone, visitor, invitedBy, failAt) ==
    LET same == Ascending(UsersWithVisitor(d, visitor))
        \* User.findOne({ referralCode: invitedBy }), when invitedBy is given
        inviting == IF invitedBy \in Ids(d.users) THEN invitedBy ELSE NoId
    IN IF Len(same) > 0
       THEN LET r == BlockLoop(d, same, 0, failAt)
            IN IF r.failed THEN Fail(r.db, 500, "Internal")
               ELSE Fail(r.db, 403, "DuplicateDevice")
       ELSE IF \E u \in Ids(d.users) : d.users[u].phoneNumber = phone
       THEN Fail(d, 400, "PhoneTaken")
       ELSE IF inviting # NoId /\ d.users[inviting].visitorId = visitor
       THEN Fail(d, 400, "SameDevice")
       ELSE IF failAt = 1 THEN Fail(d, 500, "Internal")
       ELSE LET d1 == [d EXCEPT !.users =
                          Append(@, NewUser(phone, visitor, FALSE, inviting))]
                id == Len(d1.users)
            IN IF inviting = NoId THEN Done(d1, 201, id)
               ELSE IF failAt = 2 THEN Fail(d1, 500, "Internal")
               ELSE Done([d1 EXCEPT !.users[inviting].referredUsers =
                            Append(@, id)], 201, id)

---------------------------------------------------------------------------
(* Deposit controllers *)

requestDeposit(d, userId, amount, failAt) ==
    LET minDeposit == IF HasConfig(d) THEN FindOneConfig(d).minDepositAmount
                      ELSE FallbackMinDeposit
    IN IF amount = 0 THEN Fail(d, 400, "MissingInput")
       ELSE IF amount < minDeposit THEN Fail(d, 400, "BelowMinimum")
       ELSE IF failAt = 1 THEN Fail(d, 500, "Internal")
       ELSE LET d1 == [d EXCEPT !.deposits =
                          Append(@, NewDeposit(userId, amount))]
                id == Len(d1.deposits)
            IN IF failAt = 2 THEN Fail(d1, 500, "Internal")
               ELSE Done([d1 EXCEPT !.users[userId].depositHistory =
                            Append(@, id)], 201, id)

\* an approval that does not look at the status
approveDepositAgain(d, id, adminId, failAt, t) ==
    IF id \notin Ids(d.deposits) THEN Fail(d, 404, "NotFound")
    ELSE IF failAt = 1 THEN Fail(d, 500, "Internal")
    ELSE LET d1 == [d EXCEPT !.deposits[id].status = "approved",
                             !.deposits[id].approvalDate = t,
                             !.deposits[id].adminId = adminId]
             u == d1.deposits[id].userId
             user == [d1.users[u] EXCEPT !.balance = @ + d1.deposits[id].amount]
         IN IF failAt = 2 \/ ~ValidUser(user) THEN Fail(d1, 500, "Internal")
            ELSE Done([d1 EXCEPT !.users[u].balance = user.balance], 200, id)

approveDeposit(d, id, adminId, failAt, t) ==
    IF id \notin Ids(d.deposits) THEN Fail(d, 404, "NotFound")
    ELSE IF d.deposits[id].status # "pending" THEN Fail(d, 400, "NotPending")
    ELSE IF failAt = 1 THEN Fail(d, 500, "Internal")
    ELSE LET d1 == [d EXCEPT !.deposits[id].status = "approved",
                             !.deposits[id].approvalDate = t,
                             !.deposits[id].adminId = adminId]
             u == d1.deposits[id].userId
             user == [d1.users[u] EXCEPT !.balance = @ + d1.deposits[id].amount]
         IN IF failAt = 2 \/ ~ValidUser(user) THEN Fail(d1, 500, "Internal")
            ELSE Done([d1 EXCEPT !.users[u].balance = user.balance], 200, id)

rejectDeposit(d, id, adminId, failAt, t) ==
    IF id \notin Ids(d.deposits) THEN Fail(d, 404, "NotFound")
    ELSE IF d.deposits[id].status # "pending" THEN Fail(d, 400, "NotPending")
    ELSE IF failAt = 1 THEN Fail(d, 500, "Internal")
    ELSE Done([d EXCEPT !.deposits[id].status = "rejected",
                       !.deposits[id].approvalDate = t,
                       !.deposits[id].adminId = adminId], 200, id)

---------------------------------------------------------------------------
(* Withdrawal controllers *)

\* a handler that decrements the stored balance in place, with neither the
\* balance test nor the schema validation of save()
requestWithdrawalUnchecked(d, userId, amount, failAt) ==
    IF amount = 0 \/ amount <= 0 THEN Fail(d, 400, "InvalidAmount")
    ELSE IF failAt = 1 THEN Fail(d, 500, "Internal")
    ELSE LET d1 == [d EXCEPT !.withdrawals =
                       Append(@, NewWithdrawal(userId, amount))]
             id == Len(d1.withdrawals)
         IN IF failAt = 2 THEN Fail(d1, 500, "Internal")
            ELSE Done([d1 EXCEPT !.users[userId].balance = @ - amount,
                                !.users[userId].withdrawalHistory =
                                    Append(@, id)], 201, id)

\* requestWithdrawal without the test of the amount's sign
requestWithdrawalAnySign(d, userId, amount, failAt) ==
    IF amount = 0 THEN Fail(d, 400, "MissingInput")
    ELSE IF userId \notin Ids(d.users) THEN Fail(d, 404, "NotFound")
    ELSE IF d.users[userId].balance < amount THEN Fail(d, 400, "InsufficientFunds")
    ELSE LET user == [d.users[userId] EXCEPT !.balance = @ - amount]
         IN IF failAt = 1 THEN Fail(d, 500, "Internal")
            ELSE LET d1 == [d EXCEPT !.withdrawals =
                               Append(@, NewWithdrawal(userId, amount))]
                     id == Len(d1.withdrawals)
                 IN IF failAt = 2 \/ ~ValidUser(user) THEN Fail(d1, 500, "Internal")
                    ELSE Done([d1 EXCEPT
                                 !.users[userId].balance = user.balance,
                                 !.users[userId].withdrawalHistory =
                                     Append(@, id)], 201, id)


requestWithdrawal(d, userId, amount, failAt) ==
    IF amount = 0 THEN Fail(d, 400, "MissingInput")
    ELSE IF amount <= 0 THEN Fail(d, 400, "InvalidAmount")
    ELSE IF userId \notin Ids(d.users) THEN Fail(d, 404, "NotFound")
    ELSE IF d.users[userId].balance < amount THEN Fail(d, 400, "InsufficientFunds")
    ELSE LET user == [d.users[userId] EXCEPT !.balance = @ - amount]
         IN IF failAt = 1 THEN Fail(d, 500, "Internal")
            ELSE LET d1 == [d EXCEPT !.withdrawals =
                               Append(@, NewWithdrawal(userId, amount))]
                     id == Len(d1.withdrawals)
                 IN IF failAt = 2 \/ ~ValidUser(user) THEN Fail(d1, 500, "Internal")
                    ELSE Done([d1 EXCEPT
                                 !.users[userId].balance = user.balance,
                                 !.users[userId].withdrawalHistory =
                                     Append(@, id)], 201, id)

\* approveWithdrawal giving the amount back to the user, as rejectWithdrawal
\* does
approveWithdrawalRefunds(d, id, adminId, failAt, t) ==
    IF id \notin Ids(d.withdrawals) THEN Fail(d, 404, "NotFound")
    ELSE IF d.withdrawals[id].status # "pending" THEN Fail(d, 400, "NotPending")
    ELSE IF failAt = 1 THEN Fail(d, 500, "Internal")
    ELSE Done([d EXCEPT !.withdrawals[id].status = "approved",
                       !.withdrawals[id].approvalDate = t,
                       !.withdrawals[id].adminId = adminId,
                       !.users[d.withdrawals[id].userId].balance =
                           @ + d.withdrawals[id].amount], 200, id)


approveWithdrawal(d, id, adminId, failAt, t) ==
    IF id \notin Ids(d.withdrawals) THEN Fail(d, 404, "NotFound")
    ELSE IF d.withdrawals[id].status # "pending" THEN Fail(d, 400, "NotPending")
    ELSE IF failAt = 1 THEN Fail(d, 500, "Internal")
    ELSE Done([d EXCEPT !.withdrawals[id].status = "approved",
                       !.withdrawals[id].approvalDate = t,
                       !.withdrawals[id].adminId = adminId], 200, id)

\* a rejection that gives nothing back
rejectWithdrawalNoRefund(d, id, adminId, failAt, t) ==
    IF id \notin Ids(d.withdrawals) THEN Fail(d, 404, "NotFound")
    ELSE IF d.withdrawals[id].status # "pending" THEN Fail(d, 400, "NotPending")
    ELSE IF failAt = 1 THEN Fail(d, 500, "Internal")
    ELSE LET d1 == [d EXCEPT !.withdrawals[id].status = "rejected",
                             !.withdrawals[id].approvalDate = t,
                             !.withdrawals[id].adminId = adminId]
         IN IF failAt = 2 THEN Fail(d1, 500, "Internal")
            ELSE Done(d1, 200, id)

rejectWithdrawal(d, id, adminId, failAt, t) ==
    IF id \notin Ids(d.withdrawals) THEN Fail(d, 404, "NotFound")
    ELSE IF d.withdrawals[id].status # "pending" THEN Fail(d, 400, "NotPending")
    ELSE IF failAt = 1 THEN Fail(d, 500, "Internal")
    ELSE LET d1 == [d EXCEPT !.withdrawals[id].status = "rejected",
                             !.withdrawals[id].approvalDate = t,
                             !.withdrawals[id].adminId = adminId]
             u == d1.withdrawals[id].userId
             user == [d1.users[u] EXCEPT
                          !.balance = @ + d1.withdrawals[id].amount]
         IN IF failAt = 2 \/ ~ValidUser(user) THEN Fail(d1, 500, "Internal")
            ELSE Done([d1 EXCEPT !.users[u].balance = user.balance], 200, id)

---------------------------------------------------------------------------
(* Investment controller *)

\* CommissionInviter climbing one more level: the inviter's own inviter is
\* paid when there is one.
CommissionInviterOfInviter(d, userId) ==
    LET code == d.users[userId].invitedBy
        up == IF code # NoId /\ code \in Ids(d.users)
              THEN d.users[code].invitedBy ELSE NoId
    IN IF code # NoId /\ code \in Ids(d.users) /\ code # userId
          /\ d.users[code].visitorId # d.users[userId].visitorId
       THEN IF up # NoId /\ up \in Ids(d.users) THEN up ELSE code
       ELSE NoId


\* the inviter a commission goes to: User.findOne({ referralCode:
\* user.invitedBy }), kept when it is another account on another device;
\* NoId when there is none
CommissionInviter(d, userId) ==
    LET code == d.users[userId].invitedBy
    IN IF code # NoId /\ code \in Ids(d.users) /\ code # userId
          /\ d.users[code].visitorId # d.users[userId].visitorId
       THEN code ELSE NoId

\* an activation that asks for more than the price
activateInvestmentStrict(d, userId, planId, amount, failAt, t) ==
    IF planId = NoId \/ amount = 0 THEN Fail(d, 400, "MissingInput")
    ELSE IF amount <= 0 THEN Fail(d, 400, "InvalidAmount")
    ELSE IF userId \notin Ids(d.users) \/ planId \notin PlanIds(d)
    THEN Fail(d, 404, "NotFound")
    ELSE IF ~d.plans[planId].isActive THEN Fail(d, 404, "NotFound")
    ELSE IF amount < d.plans[planId].minAmount
            \/ amount > d.plans[planId].maxAmount
    THEN Fail(d, 400, "OutOfRange")
    ELSE IF d.users[userId].balance <= amount THEN Fail(d, 400, "InsufficientFunds")
    ELSE IF failAt = 1 THEN Fail(d, 500, "Internal")
    ELSE
    LET plan == d.plans[planId]
        endDate == t + plan.durationDays * TicksPerDay
        d1 == [d EXCEPT
                 !.investments = Append(@, NewInvestment(userId, planId,
                                   amount, plan.dailyProfitRate, endDate, t)),
                 !.audit = Append(@, NewAudit)]
        id == Len(d1.investments)
        user == [d1.users[userId] EXCEPT
                     !.balance = @ - amount,
                     !.activeInvestments = Append(@, id)]
    IN IF failAt = 2 \/ ~ValidUser(user) THEN Fail(d1, 500, "Internal")
       ELSE
       LET d2 == [d1 EXCEPT !.users[userId] = user]
           inviter == CommissionInviter(d2, userId)
       IN IF HasConfig(d2) /\ FindOneConfig(d2).isPromotionActive
             /\ inviter # NoId
             /\ FindOneConfig(d2).commissionOnPlanActivation > 0
          THEN LET commissionAmount ==
                       Pct(amount, FindOneConfig(d2).commissionOnPlanActivation)
                   inv == [d2.users[inviter] EXCEPT
                               !.bonusBalance = @ + commissionAmount]
               IN IF failAt = 3 \/ ~ValidUser(inv) THEN Fail(d2, 500, "Internal")
                  ELSE Done([d2 EXCEPT !.users[inviter].bonusBalance =
                                          inv.bonusBalance], 201, id)
          ELSE Done(d2, 201, id)

\* an activation that does not look at the plan's isActive
activateInvestmentAnyPlan(d, userId, planId, amount, failAt, t) ==
    IF planId = NoId \/ amount = 0 THEN Fail(d, 400, "MissingInput")
    ELSE IF amount <= 0 THEN Fail(d, 400, "InvalidAmount")
    ELSE IF userId \notin Ids(d.users) \/ planId \notin PlanIds(d)
    THEN Fail(d, 404, "NotFound")
    ELSE IF amount < d.plans[planId].minAmount
            \/ amount > d.plans[planId].maxAmount
    THEN Fail(d, 400, "OutOfRange")
    ELSE IF d.users[userId].balance < amount THEN Fail(d, 400, "InsufficientFunds")
    ELSE IF failAt = 1 THEN Fail(d, 500, "Internal")
    ELSE
    LET plan == d.plans[planId]
        endDate == t + plan.durationDays * TicksPerDay
        d1 == [d EXCEPT
                 !.investments = Append(@, NewInvestment(userId, planId,
                                   amount, plan.dailyProfitRate, endDate, t)),
                 !.audit = Append(@, NewAudit)]
        id == Len(d1.investments)
        user == [d1.users[userId] EXCEPT
                     !.balance = @ - amount,
                     !.activeInvestments = Append(@, id)]
    IN IF failAt = 2 \/ ~ValidUser(user) THEN Fail(d1, 500, "Internal")
       ELSE
       LET d2 == [d1 EXCEPT !.users[userId] = user]
           inviter == CommissionInviter(d2, userId)
       IN IF HasConfig(d2) /\ FindOneConfig(d2).isPromotionActive
             /\ inviter # NoId
             /\ FindOneConfig(d2).commissionOnPlanActivation > 0
          THEN LET commissionAmount ==
                       Pct(amount, FindOneConfig(d2).commissionOnPlanActivation)
                   inv == [d2.users[inviter] EXCEPT
                               !.bonusBalance = @ + commissionAmount]
               IN IF failAt = 3 \/ ~ValidUser(inv) THEN Fail(d2, 500, "Internal")
                  ELSE Done([d2 EXCEPT !.users[inviter].bonusBalance =
                                          inv.bonusBalance], 201, id)
          ELSE Done(d2, 201, id)

\* an activation that pays the commission whether or not the promotion is on
activateInvestmentNoToggle(d, userId, planId, amount, failAt, t) ==
    IF planId = NoId \/ amount = 0 THEN Fail(d, 400, "MissingInput")
    ELSE IF amount <= 0 THEN Fail(d, 400, "InvalidAmount")
    ELSE IF userId \notin Ids(d.users) \/ planId \notin PlanIds(d)
    THEN Fail(d, 404, "NotFound")
    ELSE IF ~d.plans[planId].isActive THEN Fail(d, 404, "NotFound")
    ELSE IF amount < d.plans[planId].minAmount
            \/ amount > d.plans[planId].maxAmount
    THEN Fail(d, 400, "OutOfRange")
    ELSE IF d.users[userId].balance < amount THEN Fail(d, 400, "InsufficientFunds")
    ELSE IF failAt = 1 THEN Fail(d, 500, "Internal")
    ELSE
    LET plan == d.plans[planId]
        endDate == t + plan.durationDays * TicksPerDay
        d1 == [d EXCEPT
                 !.investments = Append(@, NewInvestment(userId, planId,
                                   amount, plan.dailyProfitRate, endDate, t)),
                 !.audit = Append(@, NewAudit)]
        id == Len(d1.investments)
        user == [d1.users[userId] EXCEPT
                     !.balance = @ - amount,
                     !.activeInvestments = Append(@, id)]
    IN IF failAt = 2 \/ ~ValidUser(user) THEN Fail(d1, 500, "Internal")
       ELSE
       LET d2 == [d1 EXCEPT !.users[userId] = user]
           inviter == CommissionInviter(d2, userId)
       IN IF HasConfig(d2)
             /\ inviter # NoId
             /\ FindOneConfig(d2).commissionOnPlanActivation > 0
          THEN LET commissionAmount ==
                       Pct(amount, FindOneConfig(d2).commissionOnPlanActivation)
                   inv == [d2.users[inviter] EXCEPT
                               !.bonusBalance = @ + commissionAmount]
               IN IF failAt = 3 \/ ~ValidUser(inv) THEN Fail(d2, 500, "Internal")
                  ELSE Done([d2 EXCEPT !.users[inviter].bonusBalance =
                                          inv.bonusBalance], 201, id)
          ELSE Done(d2, 201, id)

activateInvestment(d, userId, planId, amount, failAt, t) ==
    IF planId = NoId \/ amount = 0 THEN Fail(d, 400, "MissingInput")
    ELSE IF amount <= 0 THEN Fail(d, 400, "InvalidAmount")
    ELSE IF userId \notin Ids(d.users) \/ planId \notin PlanIds(d)
    THEN Fail(d, 404, "NotFound")
    ELSE IF ~d.plans[planId].isActive THEN Fail(d, 404, "NotFound")
    ELSE IF amount < d.plans[planId].minAmount
            \/ amount > d.plans[planId].maxAmount
    THEN Fail(d, 400, "OutOfRange")
    ELSE IF d.users[userId].balance < amount THEN Fail(d, 400, "InsufficientFunds")
    ELSE IF failAt = 1 THEN Fail(d, 500, "Internal")
    ELSE
    LET plan == d.plans[planId]
        endDate == t + plan.durationDays * TicksPerDay
        d1 == [d EXCEPT
                 !.investments = Append(@, NewInvestment(userId, planId,
                                   amount, plan.dailyProfitRate, endDate, t)),
                 !.audit = Append(@, NewAudit)]
        id == Len(d1.investments)
        user == [d1.users[userId] EXCEPT
                     !.balance = @ - amount,
                     !.activeInvestments = Append(@, id)]
    IN IF failAt = 2 \/ ~ValidUser(user) THEN Fail(d1, 500, "Internal")
       ELSE
       LET d2 == [d1 EXCEPT !.users[userId] = user]
           inviter == CommissionInviter(d2, userId)
       IN IF HasConfig(d2) /\ FindOneConfig(d2).isPromotionActive
             /\ inviter # NoId
             /\ FindOneConfig(d2).commissionOnPlanActivation > 0
          THEN LET commissionAmount ==
                       Pct(amount, FindOneConfig(d2).commissionOnPlanActivation)
                   inv == [d2.users[inviter] EXCEPT
                               !.bonusBalance = @ + commissionAmount]
               IN IF failAt = 3 \/ ~ValidUser(inv) THEN Fail(d2, 500, "Internal")
                  ELSE Done([d2 EXCEPT !.users[inviter].bonusBalance =
                                          inv.bonusBalance], 201, id)
          ELSE Done(d2, 201, id)

---------------------------------------------------------------------------
(* Daily settlement: processDailyProfitsAndCommissions *)

\* Eligible without the status filter of the query
EligibleAnyStatus(d, today) ==
    { i \in Ids(d.investments) :
        d.investments[i].lastProfitCreditDate < today }


\* Investment.find({ status: 'active', lastProfitCreditDate: { $lt: today } })
Eligible(d, today) ==
    { i \in Ids(d.investments) :
        /\ d.investments[i].status = "active"
        /\ d.investments[i].lastProfitCreditDate < today }

\* The state of one run: the database, the user documents populated by the
\* find (one shared document per user, changed in memory as the loop goes),
\* the number of writes issued, and whether and where a write threw.
RunState(d, failAt) ==
    [ db |-> d, mem |-> d.users, w |-> 0, failAt |-> failAt,
      failed |-> FALSE, failedInv |-> NoId, failedWrite |-> "none" ]

\* one awaited save(): it throws when it is the failAt-th write of the run or
\* when schema validation rejects the document
Write(st, i, name, valid, newdb) ==
    IF st.failed THEN st
    ELSE IF st.w + 1 = st.failAt \/ ~valid
    THEN [st EXCEPT !.w = @ + 1, !.failed = TRUE, !.failedInv = i,
                    !.failedWrite = name]
    ELSE [st EXCEPT !.w = @ + 1, !.db = newdb]

\* does the loop body pay a daily commission for user u
PaysDailyCommission(d, u) ==
    /\ HasConfig(d)
    /\ FindOneConfig(d).isPromotionActive
    /\ FindOneConfig(d).commissionOnDailyProfit > 0
    /\ CommissionInviter(d, u) # NoId

\* a run that stamps the day before
CreditDateYesterday(today) == today - TicksPerDay

\* the date settlement stores in lastProfitCreditDate
CreditDate(today) == today

\* CreditOne with the commission taken from the principal instead of the
\* day's profit.
CreditOneOnPrincipal(st, i, today) ==
    LET inv == st.db.investments[i]
        u == inv.userId
        user == st.mem[u]
        dailyProfit == Pct(inv.investedAmount, inv.dailyProfitRate)
        memUser == [user EXCEPT !.balance = @ + dailyProfit]
        s0 == [st EXCEPT !.mem[u] = memUser]
        \* 2. commission on the daily profit, saved first
        inviter == CommissionInviter(s0.db, u)
        s1 == IF PaysDailyCommission(s0.db, u)
              THEN LET commission ==
                         Pct(inv.investedAmount,
                             FindOneConfig(s0.db).commissionOnDailyProfit)
                       doc == [s0.db.users[inviter] EXCEPT
                                   !.bonusBalance = @ + commission]
                   IN Write(s0, i, "inviter", ValidUser(doc),
                        [s0.db EXCEPT
                           !.users[inviter].bonusBalance = doc.bonusBalance,
                           !.audit[i].commission = @ + 1])
              ELSE s0
        \* investment.save(): currentProfit and lastProfitCreditDate
        s2 == Write(s1, i, "investment", inv.currentProfit + dailyProfit >= 0,
                [s1.db EXCEPT
                   !.investments[i].currentProfit = @ + dailyProfit,
                   !.investments[i].lastProfitCreditDate = CreditDate(today),
                   !.audit[i].marked = @ + 1])
    IN  \* user.save(): the balance
        Write(s2, i, "user", ValidUser(memUser),
            [s2.db EXCEPT !.users[u].balance = memUser.balance,
                          !.audit[i].credited = @ + 1])


\* CreditOne reading the rate from the plan as it is on the day of the credit.
CreditOneAtPlanRate(st, i, today) ==
    LET inv == st.db.investments[i]
        u == inv.userId
        user == st.mem[u]
        dailyProfit == Pct(inv.investedAmount,
                           st.db.plans[inv.planId].dailyProfitRate)
        memUser == [user EXCEPT !.balance = @ + dailyProfit]
        s0 == [st EXCEPT !.mem[u] = memUser]
        \* 2. commission on the daily profit, saved first
        inviter == CommissionInviter(s0.db, u)
        s1 == IF PaysDailyCommission(s0.db, u)
              THEN LET commission ==
                         Pct(dailyProfit,
                             FindOneConfig(s0.db).commissionOnDailyProfit)
                       doc == [s0.db.users[inviter] EXCEPT
                                   !.bonusBalance = @ + commission]
                   IN Write(s0, i, "inviter", ValidUser(doc),
                        [s0.db EXCEPT
                           !.users[inviter].bonusBalance = doc.bonusBalance,
                           !.audit[i].commission = @ + 1])
              ELSE s0
        \* investment.save(): currentProfit and lastProfitCreditDate
        s2 == Write(s1, i, "investment", inv.currentProfit + dailyProfit >= 0,
                [s1.db EXCEPT
                   !.investments[i].currentProfit = @ + dailyProfit,
                   !.investments[i].lastProfitCreditDate = CreditDate(today),
                   !.audit[i].marked = @ + 1])
    IN  \* user.save(): the balance
        Write(s2, i, "user", ValidUser(memUser),
            [s2.db EXCEPT !.users[u].balance = memUser.balance,
                          !.audit[i].credited = @ + 1])


\* CreditOne paying one daily profit for each day since the last credit
CreditOneBackPay(st, i, today) ==
    LET inv == st.db.investments[i]
        u == inv.userId
        user == st.mem[u]
        dailyProfit == Pct(inv.investedAmount, inv.dailyProfitRate)
                       * ((today - StartOfDay(inv.lastProfitCreditDate))
                            \div TicksPerDay)
        memUser == [user EXCEPT !.balance = @ + dailyProfit]
        s0 == [st EXCEPT !.mem[u] = memUser]
        \* 2. commission on the daily profit, saved first
        inviter == CommissionInviter(s0.db, u)
        s1 == IF PaysDailyCommission(s0.db, u)
              THEN LET commission ==
                         Pct(dailyProfit,
                             FindOneConfig(s0.db).commissionOnDailyProfit)
                       doc == [s0.db.users[inviter] EXCEPT
                                   !.bonusBalance = @ + commission]
                   IN Write(s0, i, "inviter", ValidUser(doc),
                        [s0.db EXCEPT
                           !.users[inviter].bonusBalance = doc.bonusBalance,
                           !.audit[i].commission = @ + 1])
              ELSE s0
        \* investment.save(): currentProfit and lastProfitCreditDate
        s2 == Write(s1, i, "investment", inv.currentProfit + dailyProfit >= 0,
                [s1.db EXCEPT
                   !.investments[i].currentProfit = @ + dailyProfit,
                   !.investments[i].lastProfitCreditDate = CreditDate(today),
                   !.audit[i].marked = @ + 1])
    IN  \* user.save(): the balance
        Write(s2, i, "user", ValidUser(memUser),
            [s2.db EXCEPT !.users[u].balance = memUser.balance,
                          !.audit[i].credited = @ + 1])


\* steps 1 and 2 of the loop body: the profit, the commission, the saves
CreditOne(st, i, today) ==
    LET inv == st.db.investments[i]
        u == inv.userId
        user == st.mem[u]
        dailyProfit == Pct(inv.investedAmount, inv.dailyProfitRate)
        memUser == [user EXCEPT !.balance = @ + dailyProfit]
        s0 == [st EXCEPT !.mem[u] = memUser]
        \* 2. commission on the daily profit, saved first
        inviter == CommissionInviter(s0.db, u)
        s1 == IF PaysDailyCommission(s0.db, u)
              THEN LET commission ==
                         Pct(dailyProfit,
                             FindOneConfig(s0.db).commissionOnDailyProfit)
                       doc == [s0.db.users[inviter] EXCEPT
                                   !.bonusBalance = @ + commission]
                   IN Write(s0, i, "inviter", ValidUser(doc),
                        [s0.db EXCEPT
                           !.users[inviter].bonusBalance = doc.bonusBalance,
                           !.audit[i].commission = @ + 1])
              ELSE s0
        \* investment.save(): currentProfit and lastProfitCreditDate
        s2 == Write(s1, i, "investment", inv.currentProfit + dailyProfit >= 0,
                [s1.db EXCEPT
                   !.investments[i].currentProfit = @ + dailyProfit,
                   !.investments[i].lastProfitCreditDate = CreditDate(today),
                   !.audit[i].marked = @ + 1])
    IN  \* user.save(): the balance
        Write(s2, i, "user", ValidUser(memUser),
            [s2.db EXCEPT !.users[u].balance = memUser.balance,
                          !.audit[i].credited = @ + 1])

\* CompleteOne giving the principal back to the owner at the end of the term
CompleteOneReturnsPrincipal(st, i, today) ==
    LET inv == st.db.investments[i]
        u == inv.userId
        left == Without(st.mem[u].activeInvestments, i)
        s4 == Write(st, i, "completed", TRUE,
                [st.db EXCEPT !.investments[i].status = "completed"])
    IN IF st.failed \/ ~(inv.endDate <= today) THEN st
       ELSE Write([s4 EXCEPT !.mem[u].activeInvestments = left], i,
                "activeInvestments", TRUE,
                [s4.db EXCEPT !.users[u].activeInvestments = left,
                              !.users[u].balance = @ + inv.investedAmount])

\* a completion that leaves the investment in the owner's list
CompleteOneKeepsListed(st, i, today) ==
    LET inv == st.db.investments[i]
        u == inv.userId
        left == st.mem[u].activeInvestments
        s4 == Write(st, i, "completed", TRUE,
                [st.db EXCEPT !.investments[i].status = "completed"])
    IN IF st.failed \/ ~(inv.endDate <= today) THEN st
       ELSE Write([s4 EXCEPT !.mem[u].activeInvestments = left], i,
                "activeInvestments", TRUE,
                [s4.db EXCEPT !.users[u].activeInvestments = left])

\* step 3 of the loop body: completion when the term has been reached
CompleteOne(st, i, today) ==
    LET inv == st.db.investments[i]
        u == inv.userId
        left == Without(st.mem[u].activeInvestments, i)
        s4 == Write(st, i, "completed", TRUE,
                [st.db EXCEPT !.investments[i].status = "completed"])
    IN IF st.failed \/ ~(inv.endDate <= today) THEN st
       ELSE Write([s4 EXCEPT !.mem[u].activeInvestments = left], i,
                "activeInvestments", TRUE,
                [s4.db EXCEPT !.users[u].activeInvestments = left])

\* a loop body that looks at the term first and credits nothing to an
\* investment it completes
SettleOneExpiryFirst(st, i, today) ==
    IF st.mem[st.db.investments[i].userId].status = "blocked" THEN st
    ELSE IF st.db.investments[i].endDate <= today
    THEN CompleteOne(st, i, today)
    ELSE CreditOne(st, i, today)

\* a loop body that does not look at the owner's status
SettleOneAnyOwner(st, i, today) ==
    CompleteOne(CreditOne(st, i, today), i, today)

\* the loop body for investment i: a blocked owner is skipped, the credit
\* comes before the completion
SettleOne(st, i, today) ==
    IF st.mem[st.db.investments[i].userId].status = "blocked" THEN st
    ELSE CompleteOne(CreditOne(st, i, today), i, today)

RECURSIVE SettleLoop(_, _, _)
\* for (const investment of investments): a throw leaves the loop
SettleLoop(st, todo, today) ==
    IF todo = <<>> \/ st.failed THEN st
    ELSE SettleLoop(SettleOne(st, Head(todo), today), Tail(todo), today)

\* the run up to its response: the loop over the investments found
SettleRun(d, failAt, t) ==
    SettleLoop(RunState(d, failAt), Ascending(Eligible(d, StartOfDay(t))),
               StartOfDay(t))

\* The fixed referral bonus pass after the loop (lines 1193-1211) only reads.
processDailyProfitsAndCommissions(d, failAt, t) ==
    LET st == SettleRun(d, failAt, t)
    IN IF st.failed THEN Fail(st.db, 500, "Internal")
       ELSE Done(st.db, 200, NoId)

---------------------------------------------------------------------------
(* The server, one request at a time *)

Config == [NewAdminConfig EXCEPT !.commissionOnPlanActivation = 10,
                                 !.commissionOnDailyProfit = 50]

\* The database once createInitialAdmin has run and the admin has created a
\* plan and set the commission rates.
FreshDb ==
    [ users |-> << NewUser(AdminPhone, AdminVisitorId, TRUE, NoId) >>,
      plans |-> << NewPlan(50, 100, 20) >>,
      investments |-> <<>>,
      audit |-> <<>>,
      deposits |-> <<>>,
      withdrawals |-> <<>>,
      configs |-> << Config >>,
      removed |-> {} ]

\* The database of a platform in use, as FreshDb becomes at time 0 by:
\* registerUser of A; registerUser of B with A's referral code; requestDeposit
\* of 100 by A and by B; approveDeposit of both by the admin.
FundedDb ==
    LET A == registerUser(FreshDb, 1, 1, NoId, 0).db
        B == registerUser(A, 2, 2, 2, 0).db
        D1 == requestDeposit(B, 2, 100, 0).db
        D2 == requestDeposit(D1, 3, 100, 0).db
        A1 == approveDeposit(D2, 1, 1, 0, 0).db
    IN approveDeposit(A1, 2, 1, 0, 0).db

InitialDbs == { FreshDb, FundedDb }

Idle == [ p \in {} |-> 0 ]

Init ==
    /\ db \in InitialDbs
    /\ now = 0
    /\ fails = 0
    /\ procs = Idle
    /\ db0 = db

FailPoints == 0..(5 * MaxDocs)

Admins == { u \in Ids(db.users) : db.users[u].isAdmin }

\* the accounts that send the user requests
Customers == { u \in Ids(db.users) : ~db.users[u].isAdmin }

Documents(d) == Len(d.deposits) + Len(d.withdrawals) + Len(d.investments)

\* room for one more document
CanCreate == Documents(db) - Documents(db0) < MaxDocs

\* the request is served: r is what the controller returned.  A write is
\* made to fail only where the request issues it.
Serve(r, failAt) ==
    /\ failAt = 0 \/ (r.code = 500 /\ fails < MaxFails)
    /\ db' = r.db
    /\ fails' = IF failAt = 0 THEN fails ELSE fails + 1
    /\ UNCHANGED <<now, procs, db0>>

\* Phone numbers and device fingerprints are opaque: a request carries one
\* already registered or the first one not yet seen.
RegisterUser ==
    \E phone \in Phones, visitor \in VisitorIds,
       invitedBy \in 0..MaxUsers, failAt \in 0..2 :
        /\ Len(db.users) < MaxUsers
        /\ phone <= Len(db.users)
        /\ visitor <= Len(db.users)
        /\ Serve(registerUser(db, phone, visitor, invitedBy, failAt),
                 failAt)

RequestDeposit ==
    \E u \in Customers, amount \in AmountInputs, failAt \in 0..2 :
        /\ CanCreate
        /\ Serve(requestDeposit(db, u, amount, failAt),
                 failAt)

ApproveDeposit ==
    \E id \in 1..(Len(db.deposits) + 1), a \in Admins, failAt \in 0..2 :
        Serve(approveDeposit(db, id, a, failAt, now),
              failAt)

RejectDeposit ==
    \E id \in 1..(Len(db.deposits) + 1), a \in Admins, failAt \in 0..1 :
        Serve(rejectDeposit(db, id, a, failAt, now),
              failAt)

RequestWithdrawal ==
    \E u \in Customers, amount \in AmountInputs, failAt \in 0..2 :
        /\ CanCreate
        /\ Serve(requestWithdrawal(db, u, amount, failAt), failAt)

ApproveWithdrawal ==
    \E id \in 1..(Len(db.withdrawals) + 1), a \in Admins, failAt \in 0..1 :
        Serve(approveWithdrawal(db, id, a, failAt, now),
              failAt)

RejectWithdrawal ==
    \E id \in 1..(Len(db.withdrawals) + 1), a \in Admins, failAt \in 0..2 :
        Serve(rejectWithdrawal(db, id, a, failAt, now),
              failAt)

ActivateInvestment ==
    \E u \in Customers, planId \in 0..(Len(db.plans) + 1),
       amount \in AmountInputs, failAt \in 0..3 :
        /\ CanCreate
        /\ Serve(activateInvestment(db, u, planId, amount, failAt, now),
                 failAt)

ProcessDailyProfits ==
    \E failAt \in FailPoints :
        Serve(processDailyProfitsAndCommissions(db, failAt, now), failAt)

\* the days the clock is followed tick by tick: the first ones of every
\* period of DurationDays days
Observed(t) == (t \div TicksPerDay) % DurationDays <= WindowDays

\* time passes: to the next tick, or by the length of a plan's term
Tick ==
    /\ \E t \in {now + 1, now + DurationDays * TicksPerDay} :
         /\ t \div TicksPerDay <= MaxDay
         /\ Observed(t)
         /\ now' = t
    /\ UNCHANGED <<db, fails, procs, db0>>

Next ==
    \/ RegisterUser
    \/ RequestDeposit
    \/ ApproveDeposit
    \/ RejectDeposit
    \/ RequestWithdrawal
    \/ ApproveWithdrawal
    \/ RejectWithdrawal
    \/ ActivateInvestment
    \/ ProcessDailyProfits
    \/ Tick

Spec == Init /\ [][Next]_vars

---------------------------------------------------------------------------
(* Administration: users, plans and configuration *)

\* blockUser (lines 988-1007)
blockUser(d, id, failAt) ==
    IF id \notin Ids(d.users) THEN Fail(d, 404, "NotFound")
    ELSE IF d.users[id].isAdmin THEN Fail(d, 403, "IsAdmin")
    ELSE IF failAt = 1 THEN Fail(d, 500, "Internal")
    ELSE Done([d EXCEPT !.users[id].status = "blocked"], 200, id)

\* unblockUser (lines 1014-1030)
unblockUser(d, id, failAt) ==
    IF id \notin Ids(d.users) THEN Fail(d, 404, "NotFound")
    ELSE IF failAt = 1 THEN Fail(d, 500, "Internal")
    ELSE Done([d EXCEPT !.users[id].status = "active"], 200, id)

\* adminConfigSchema: the rates lie between 0 and 100 percent
ValidConfig(c) ==
    /\ c.commissionOnPlanActivation \in 0..100
    /\ c.commissionOnDailyProfit \in 0..100
    /\ c.minDepositAmount >= 1

\* updateAdminConfig (lines 904-937) for a body that carries
\* isPromotionActive and the two commission rates
updateAdminConfig(d, body, failAt) ==
    LET created == ~HasConfig(d)
        d1 == IF created THEN [d EXCEPT !.configs = <<NewAdminConfig>>] ELSE d
        config == [FindOneConfig(d1) EXCEPT
                      !.isPromotionActive = body.isPromotionActive,
                      !.commissionOnPlanActivation =
                          body.commissionOnPlanActivation,
                      !.commissionOnDailyProfit =
                          body.commissionOnDailyProfit]
        save == IF created THEN 2 ELSE 1
    IN IF created /\ failAt = 1 THEN Fail(d, 500, "Internal")
       ELSE IF failAt = save \/ ~ValidConfig(config)
       THEN Fail(d1, 500, "Internal")
       ELSE Done([d1 EXCEPT !.configs[1] = config], 200, 1)

\* updateInvestmentPlan (lines 370-404) for a body that carries
\* dailyProfitRate and isActive
updateInvestmentPlan(d, id, body, failAt) ==
    IF id \notin PlanIds(d) THEN Fail(d, 404, "NotFound")
    ELSE IF body.dailyProfitRate < 0 \/ body.dailyProfitRate > 100
    THEN Fail(d, 400, "InvalidRate")
    ELSE IF failAt = 1 THEN Fail(d, 500, "Internal")
    ELSE Done([d EXCEPT !.plans[id].dailyProfitRate = body.dailyProfitRate,
                        !.plans[id].isActive = body.isActive], 200, id)

\* deleteInvestmentPlan without the count of active investments
deleteInvestmentPlanUnchecked(d, id, failAt) ==
    IF id \notin PlanIds(d) THEN Fail(d, 404, "NotFound")
    ELSE IF failAt = 1 THEN Fail(d, 500, "Internal")
    ELSE Done([d EXCEPT !.removed = @ \cup {id}], 200, id)

\* deleteInvestmentPlan (lines 411-433): refused while an active investment
\* references the plan; plan.deleteOne() is the only write
deleteInvestmentPlan(d, id, failAt) ==
    IF id \notin PlanIds(d) THEN Fail(d, 404, "NotFound")
    ELSE IF Cardinality({ i \in Ids(d.investments) :
                            /\ d.investments[i].planId = id
                            /\ d.investments[i].status = "active" }) > 0
    THEN Fail(d, 400, "PlanInUse")
    ELSE IF failAt = 1 THEN Fail(d, 500, "Internal")
    ELSE Done([d EXCEPT !.removed = @ \cup {id}], 200, id)

---------------------------------------------------------------------------
(* Upgrade of an investment.  The routes register upgradeInvestment
   (POST /investments/upgrade) but the controllers at hand do not define it:
   it is modelled on its specification, with the fixed-price policy, the
   price of a plan being its minAmount. *)

Price(plan) == plan.minAmount

\* the user's active investment: the first one found
ActiveInvestment(d, userId) ==
    LET S == { i \in Ids(d.investments) :
                 /\ d.investments[i].userId = userId
                 /\ d.investments[i].status = "active" }
    IN IF S = {} THEN NoId ELSE CHOOSE i \in S : \A j \in S : i <= j

\* upgradeInvestment accepting a plan of the same price
upgradeInvestmentSamePrice(d, userId, newPlanId, failAt, t) ==
    LET i == ActiveInvestment(d, userId) IN
    IF newPlanId = NoId THEN Fail(d, 400, "MissingInput")
    ELSE IF userId \notin Ids(d.users) \/ newPlanId \notin PlanIds(d)
    THEN Fail(d, 404, "NotFound")
    ELSE IF i = NoId THEN Fail(d, 400, "NoActiveInvestment")
    ELSE IF Price(d.plans[newPlanId]) < d.investments[i].investedAmount
    THEN Fail(d, 400, "PlanNotCheaperOrEqual")
    ELSE IF d.users[userId].balance
              < Price(d.plans[newPlanId]) - d.investments[i].investedAmount
    THEN Fail(d, 400, "InsufficientFunds")
    ELSE IF failAt = 1 THEN Fail(d, 500, "Internal")
    ELSE LET plan == d.plans[newPlanId]
             diff == Price(plan) - d.investments[i].investedAmount
         IN Done([d EXCEPT
                    !.users[userId].balance = @ - diff,
                    !.investments[i].planId = newPlanId,
                    !.investments[i].investedAmount = Price(plan),
                    !.investments[i].dailyProfitRate = plan.dailyProfitRate,
                    !.investments[i].endDate =
                        t + plan.durationDays * TicksPerDay,
                    !.investments[i].lastProfitCreditDate = t], 200, i)

\* upgrade(userId, newPlanId): an active investment is required, the new
\* plan's price must exceed its investedAmount strictly, the difference is
\* debited and the investment is changed in place; a persistence error
\* aborts the operation whole.
upgradeInvestment(d, userId, newPlanId, failAt, t) ==
    LET i == ActiveInvestment(d, userId) IN
    IF newPlanId = NoId THEN Fail(d, 400, "MissingInput")
    ELSE IF userId \notin Ids(d.users) \/ newPlanId \notin PlanIds(d)
    THEN Fail(d, 404, "NotFound")
    ELSE IF i = NoId THEN Fail(d, 400, "NoActiveInvestment")
    ELSE IF Price(d.plans[newPlanId]) <= d.investments[i].investedAmount
    THEN Fail(d, 400, "PlanNotCheaperOrEqual")
    ELSE IF d.users[userId].balance
              < Price(d.plans[newPlanId]) - d.investments[i].investedAmount
    THEN Fail(d, 400, "InsufficientFunds")
    ELSE IF failAt = 1 THEN Fail(d, 500, "Internal")
    ELSE LET plan == d.plans[newPlanId]
             diff == Price(plan) - d.investments[i].investedAmount
         IN Done([d EXCEPT
                    !.users[userId].balance = @ - diff,
                    !.investments[i].planId = newPlanId,
                    !.investments[i].investedAmount = Price(plan),
                    !.investments[i].dailyProfitRate = plan.dailyProfitRate,
                    !.investments[i].endDate =
                        t + plan.durationDays * TicksPerDay,
                    !.investments[i].lastProfitCreditDate = t], 200, i)

\* FundedDb once the admin has created a second plan, of price 100 at 40%
UpgradeDb == [FundedDb EXCEPT !.plans = Append(@, NewPlan(100, 100, 40))]

InitUpgrade ==
    /\ db = UpgradeDb
    /\ now = 0
    /\ fails = 0
    /\ procs = Idle
    /\ db0 = db

UpgradeInvestment ==
    \E u \in Customers, planId \in 0..(Len(db.plans) + 1), failAt \in 0..1 :
        Serve(upgradeInvestment(db, u, planId, failAt, now), failAt)

ActivateWhole ==
    \E u \in Customers, planId \in 0..(Len(db.plans) + 1),
       amount \in AmountInputs :
        /\ CanCreate
        /\ Serve(activateInvestment(db, u, planId, amount, 0, now), 0)

SettleWhole == Serve(processDailyProfitsAndCommissions(db, 0, now), 0)

NextUpgrade ==
    \/ ActivateWhole
    \/ UpgradeInvestment
    \/ SettleWhole
    \/ Tick

SpecUpgrade == InitUpgrade /\ [][NextUpgrade]_vars

---------------------------------------------------------------------------
(* One investment followed day by day over the whole term of its plan *)

MaxTermDay == 61       \* the daily clock stops at the end of this day
MaxStartDay == 0       \* investments are activated on days up to this one
MaxTermDocs == 1       \* investments activated over the term

\* The database at time 0 after registerUser of A, requestDeposit of 100 by A
\* and approveDeposit by the admin.
TermDb ==
    LET A == registerUser(FreshDb, 1, 1, NoId, 0).db
        D1 == requestDeposit(A, 2, 100, 0).db
    IN approveDeposit(D1, 1, 1, 0, 0).db

InitTerm ==
    /\ db = TermDb
    /\ now = 0
    /\ fails = 0
    /\ procs = Idle
    /\ db0 = db

ActivateTerm ==
    \E u \in Customers, planId \in PlanIds(db), amount \in AmountInputs :
        /\ now \div TicksPerDay <= MaxStartDay
        /\ Len(db.investments) < MaxTermDocs
        /\ Serve(activateInvestment(db, u, planId, amount, 0, now), 0)

SettleTerm == Serve(processDailyProfitsAndCommissions(db, 0, now), 0)

\* time passes to the next tick
TickTerm ==
    /\ (now + 1) \div TicksPerDay <= MaxTermDay
    /\ now' = now + 1
    /\ UNCHANGED <<db, fails, procs, db0>>

NextTerm ==
    \/ ActivateTerm
    \/ SettleTerm
    \/ TickTerm

SpecTerm == InitTerm /\ [][NextTerm]_vars

---------------------------------------------------------------------------
(* The server with its administration, one request at a time, on a platform
   with a chain of referrals *)

\* FundedDb's way, with a third account: A; B invited by A; C invited by B;
\* deposits of 100 by A and by C, approved by the admin at time 0.
ChainDb ==
    LET A == registerUser(FreshDb, 1, 1, NoId, 0).db
        B == registerUser(A, 2, 2, 2, 0).db
        CC == registerUser(B, 3, 3, 3, 0).db
        D1 == requestDeposit(CC, 2, 100, 0).db
        D2 == requestDeposit(D1, 4, 100, 0).db
        A1 == approveDeposit(D2, 1, 1, 0, 0).db
    IN approveDeposit(A1, 2, 1, 0, 0).db

InitAdmin ==
    /\ db = ChainDb
    /\ now = 0
    /\ fails = 0
    /\ procs = Idle
    /\ db0 = db

\* request bodies of updateAdminConfig
ConfigInputs ==
    { [isPromotionActive |-> TRUE, commissionOnPlanActivation |-> 10,
       commissionOnDailyProfit |-> 50],
      [isPromotionActive |-> FALSE, commissionOnPlanActivation |-> 10,
       commissionOnDailyProfit |-> 50],
      [isPromotionActive |-> TRUE, commissionOnPlanActivation |-> 0,
       commissionOnDailyProfit |-> 50],
      [isPromotionActive |-> TRUE, commissionOnPlanActivation |-> 10,
       commissionOnDailyProfit |-> 0] }

\* request bodies of updateInvestmentPlan
PlanInputs ==
    { [dailyProfitRate |-> 20, isActive |-> TRUE],
      [dailyProfitRate |-> 20, isActive |-> FALSE],
      [dailyProfitRate |-> 40, isActive |-> TRUE] }

\* how far the administration has moved d away from db0: users whose
\* status differs, plus the configuration, plus the plans
Changed(d) ==
    Cardinality({ u \in Ids(db0.users) :
                    d.users[u].status # db0.users[u].status })
    + (IF d.configs # db0.configs THEN 1 ELSE 0)
    + (IF d.plans # db0.plans \/ d.removed # db0.removed THEN 1 ELSE 0)

\* an administrative request is served.  Its handler issues one write (two
\* when updateAdminConfig has to create the configuration first), so a
\* failed request leaves the database as it was.
Administer(r, failAt) ==
    /\ Changed(r.db) <= MaxChanges
    /\ failAt = 0 \/ r.code = 500
    /\ db' = r.db
    /\ UNCHANGED <<now, fails, procs, db0>>

BlockUser ==
    \E id \in 1..(Len(db.users) + 1), failAt \in 0..1 :
        Administer(blockUser(db, id, failAt), failAt)

UnblockUser ==
    \E id \in 1..(Len(db.users) + 1), failAt \in 0..1 :
        Administer(unblockUser(db, id, failAt), failAt)

UpdateAdminConfig ==
    \E body \in ConfigInputs, failAt \in 0..1 :
        Administer(updateAdminConfig(db, body, failAt), failAt)

UpdateInvestmentPlan ==
    \E id \in 1..(Len(db.plans) + 1), body \in PlanInputs, failAt \in 0..1 :
        Administer(updateInvestmentPlan(db, id, body, failAt), failAt)

DeleteInvestmentPlan ==
    \E id \in 1..(Len(db.plans) + 1), failAt \in 0..1 :
        Administer(deleteInvestmentPlan(db, id, failAt), failAt)

\* No store failure is injected in this specification: the requests of
\* users and of the scheduler are those that run to their end.
Activate == ActivateInvestment /\ fails' = fails

Settle == ProcessDailyProfits /\ fails' = fails

NextAdmin ==
    \/ Activate
    \/ Settle
    \/ Tick
    \/ BlockUser
    \/ UnblockUser
    \/ UpdateAdminConfig
    \/ UpdateInvestmentPlan
    \/ DeleteInvestmentPlan

SpecAdmin == InitAdmin /\ [][NextAdmin]_vars

---------------------------------------------------------------------------
(* Registration from any device, with the administration of the accounts *)

\* the fingerprints a registration request may carry: the opaque ones and the
\* one createInitialAdmin gives the admin
DeviceIds == VisitorIds \cup {AdminVisitorId}

InitDevice ==
    /\ db = FreshDb
    /\ now = 0
    /\ fails = 0
    /\ procs = Idle
    /\ db0 = db

RegisterDevice ==
    \E phone \in Phones, visitor \in DeviceIds,
       invitedBy \in 0..MaxUsers, failAt \in 0..2 :
        LET r == registerUser(db, phone, visitor, invitedBy, failAt)
        IN /\ Len(r.db.users) <= MaxUsers
           /\ phone <= Len(db.users)
           /\ visitor <= Len(db.users)
           /\ Serve(r, failAt)

NextDevice ==
    \/ RegisterDevice
    \/ BlockUser
    \/ UnblockUser

SpecDevice == InitDevice /\ [][NextDevice]_vars

---------------------------------------------------------------------------
(* The server with two requests in flight.  A handler runs from one await
   to the next without interruption; between two awaits the other request
   may run.  A document a handler has read is its own copy; save() sends
   the paths the handler has changed: a number is written as the value held
   in memory, an element pushed on an array is added to the stored array,
   and an array that was assigned as a whole is written only if no array of
   the stored document has changed since it was read (otherwise save()
   throws a VersionError).  No store failure is injected here. *)

Procs == {1, 2}

\* user B of FundedDb, invited by A
UserB == Len(FundedDb.users)

\* FundedDb after B has invested 50 at time 0 and has asked for a deposit
\* of 50 that is still pending
ConcDb ==
    LET I == activateInvestment(FundedDb, UserB, 1, 50, 0, 0).db
    IN requestDeposit(I, UserB, 50, 0).db

\* the requests in flight: a withdrawal by B, the approval of B's pending
\* deposit, a settlement run
Requests ==
    { [op |-> "requestWithdrawal", userId |-> UserB, amount |-> 50,
       id |-> NoId],
      [op |-> "approveDeposit", userId |-> 1, amount |-> 0,
       id |-> Len(ConcDb.deposits)],
      [op |-> "processDailyProfitsAndCommissions", userId |-> NoId,
       amount |-> 0, id |-> NoId] }

NewProc(req) ==
    [ req |-> req, pc |-> "start", code |-> 0, users |-> <<>>,
      investments |-> <<>>, todo |-> <<>>, inviter |-> <<>>, id |-> NoId ]

InitConc ==
    /\ db = ConcDb
    /\ now \in { TicksPerDay, DurationDays * TicksPerDay }
    /\ fails = 0
    /\ procs \in { [p \in Procs |-> NewProc(f[p])] : f \in [Procs -> Requests] }
    /\ db0 = db

At(p, op, pc) == procs[p].req.op = op /\ procs[p].pc = pc

Respond(p, code) ==
    procs' = [procs EXCEPT ![p].pc = "done", ![p].code = code]

Goto(p, pc) == procs' = [procs EXCEPT ![p].pc = pc]

\* the arrays of a user document, which carry its version
Arrays(u) ==
    << u.referredUsers, u.activeInvestments, u.depositHistory,
       u.withdrawalHistory >>

\* requestWithdrawal up to Withdrawal.create (lines 704-728)
WithdrawalFind(p) ==
    LET r == procs[p].req
    IN /\ At(p, "requestWithdrawal", "start")
       /\ IF r.amount = 0 \/ r.amount <= 0 THEN Respond(p, 400)
          ELSE IF r.userId \notin Ids(db.users) THEN Respond(p, 404)
          ELSE IF db.users[r.userId].balance < r.amount THEN Respond(p, 400)
          ELSE procs' = [procs EXCEPT
                   ![p].pc = "create",
                   ![p].users = [db.users EXCEPT
                                    ![r.userId].balance = @ - r.amount]]
       /\ UNCHANGED <<db, now, fails, db0>>

\* Withdrawal.create and the push on withdrawalHistory (lines 730-738)
WithdrawalCreate(p) ==
    LET r == procs[p].req
        id == Len(db.withdrawals) + 1
    IN /\ At(p, "requestWithdrawal", "create")
       /\ db' = [db EXCEPT !.withdrawals =
                    Append(@, NewWithdrawal(r.userId, r.amount))]
       /\ procs' = [procs EXCEPT
              ![p].pc = "save", ![p].id = id,
              ![p].users[r.userId].withdrawalHistory = Append(@, id)]
       /\ UNCHANGED <<now, fails, db0>>

\* user.save() and the response (lines 739-742)
WithdrawalSave(p) ==
    LET r == procs[p].req
        user == procs[p].users[r.userId]
    IN /\ At(p, "requestWithdrawal", "save")
       /\ IF ~ValidUser(user) THEN Respond(p, 500) /\ UNCHANGED db
          ELSE /\ db' = [db EXCEPT
                     !.users[r.userId].balance = user.balance,
                     !.users[r.userId].withdrawalHistory =
                         Append(@, procs[p].id)]
               /\ Respond(p, 201)
       /\ UNCHANGED <<now, fails, db0>>

\* approveDeposit up to deposit.save() (lines 636-647)
DepositFind(p) ==
    LET r == procs[p].req
    IN /\ At(p, "approveDeposit", "start")
       /\ IF r.id \notin Ids(db.deposits) THEN Respond(p, 404)
          ELSE IF db.deposits[r.id].status # "pending" THEN Respond(p, 400)
          ELSE Goto(p, "saveDeposit")
       /\ UNCHANGED <<db, now, fails, db0>>

\* deposit.save() (line 648)
DepositSave(p) ==
    LET r == procs[p].req
    IN /\ At(p, "approveDeposit", "saveDeposit")
       /\ db' = [db EXCEPT !.deposits[r.id].status = "approved",
                           !.deposits[r.id].approvalDate = now,
                           !.deposits[r.id].adminId = r.userId]
       /\ Goto(p, "findUser")
       /\ UNCHANGED <<now, fails, db0>>

\* User.findById and the credit in memory (lines 650-652)
DepositFindUser(p) ==
    LET r == procs[p].req
        u == db.deposits[r.id].userId
    IN /\ At(p, "approveDeposit", "findUser")
       /\ procs' = [procs EXCEPT
              ![p].pc = "saveUser",
              ![p].users = [db.users EXCEPT
                               ![u].balance = @ + db.deposits[r.id].amount]]
       /\ UNCHANGED <<db, now, fails, db0>>

\* user.save() and the response (lines 653-658)
DepositSaveUser(p) ==
    LET r == procs[p].req
        u == db.deposits[r.id].userId
        user == procs[p].users[u]
    IN /\ At(p, "approveDeposit", "saveUser")
       /\ IF ~ValidUser(user) THEN Respond(p, 500) /\ UNCHANGED db
          ELSE /\ db' = [db EXCEPT !.users[u].balance = user.balance]
               /\ Respond(p, 200)
       /\ UNCHANGED <<now, fails, db0>>

\* settlement: the find with its populated users, and the configuration,
\* which no request in flight changes (lines 1135-1143)
SettleFind(p) ==
    /\ At(p, "processDailyProfitsAndCommissions", "start")
    /\ procs' = [procs EXCEPT
           ![p].pc = "loop",
           ![p].todo = Ascending(Eligible(db, StartOfDay(now))),
           ![p].investments = db.investments,
           ![p].users = db.users]
    /\ UNCHANGED <<db, now, fails, db0>>

\* the head of the loop body, in memory (lines 1147-1161); after the loop
\* the run only reads and responds
SettleLoopHead(p) ==
    LET P == procs[p]
        i == Head(P.todo)
        inv == P.investments[i]
        u == inv.userId
        dailyProfit == Pct(inv.investedAmount, inv.dailyProfitRate)
        credited == [P EXCEPT
                        !.investments[i].currentProfit = @ + dailyProfit,
                        !.users[u].balance = @ + dailyProfit]
    IN /\ At(p, "processDailyProfitsAndCommissions", "loop")
       /\ IF P.todo = <<>> THEN Respond(p, 200)
          ELSE IF P.users[u].status = "blocked"
          THEN procs' = [procs EXCEPT ![p].todo = Tail(@)]
          ELSE IF /\ HasConfig(db)
                  /\ FindOneConfig(db).isPromotionActive
                  /\ FindOneConfig(db).commissionOnDailyProfit > 0
                  /\ P.users[u].invitedBy # NoId
          THEN procs' = [procs EXCEPT ![p] =
                            [credited EXCEPT !.pc = "findInviter"]]
          ELSE procs' = [procs EXCEPT ![p] =
                            [credited EXCEPT !.pc = "saveInvestment"]]
       /\ UNCHANGED <<db, now, fails, db0>>

\* User.findOne({ referralCode }) and the commission in memory
\* (lines 1162-1167)
SettleFindInviter(p) ==
    LET P == procs[p]
        i == Head(P.todo)
        inv == P.investments[i]
        u == inv.userId
        code == P.users[u].invitedBy
        dailyProfit == Pct(inv.investedAmount, inv.dailyProfitRate)
        commission ==
            Pct(dailyProfit, FindOneConfig(db).commissionOnDailyProfit)
    IN /\ At(p, "processDailyProfitsAndCommissions", "findInviter")
       /\ IF /\ code \in Ids(db.users)
             /\ code # u
             /\ db.users[code].visitorId # P.users[u].visitorId
          THEN procs' = [procs EXCEPT
                   ![p].pc = "saveInviter",
                   ![p].id = code,
                   ![p].inviter = << [db.users[code] EXCEPT
                                        !.bonusBalance = @ + commission] >>]
          ELSE Goto(p, "saveInvestment")
       /\ UNCHANGED <<db, now, fails, db0>>

\* inviter.save() (line 1168)
SettleSaveInviter(p) ==
    LET P == procs[p]
        i == Head(P.todo)
        doc == P.inviter[1]
    IN /\ At(p, "processDailyProfitsAndCommissions", "saveInviter")
       /\ IF ~ValidUser(doc) THEN Respond(p, 500) /\ UNCHANGED db
          ELSE /\ db' = [db EXCEPT
                     !.users[P.id].bonusBalance = doc.bonusBalance,
                     !.audit[i].commission = @ + 1]
               /\ Goto(p, "saveInvestment")
       /\ UNCHANGED <<now, fails, db0>>

\* investment.save() (lines 1173-1174)
SettleSaveInvestment(p) ==
    LET P == procs[p]
        i == Head(P.todo)
    IN /\ At(p, "processDailyProfitsAndCommissions", "saveInvestment")
       /\ db' = [db EXCEPT
              !.investments[i].currentProfit =
                  P.investments[i].currentProfit,
              !.investments[i].lastProfitCreditDate =
                  CreditDate(StartOfDay(now)),
              !.audit[i].marked = @ + 1]
       /\ Goto(p, "saveUser")
       /\ UNCHANGED <<now, fails, db0>>

\* user.save() and the test of the term (lines 1175-1180)
SettleSaveUser(p) ==
    LET P == procs[p]
        i == Head(P.todo)
        u == P.investments[i].userId
    IN /\ At(p, "processDailyProfitsAndCommissions", "saveUser")
       /\ IF ~ValidUser(P.users[u]) THEN Respond(p, 500) /\ UNCHANGED db
          ELSE /\ db' = [db EXCEPT
                     !.users[u].balance = P.users[u].balance,
                     !.audit[i].credited = @ + 1]
               /\ IF P.investments[i].endDate <= StartOfDay(now)
                  THEN Goto(p, "saveCompleted")
                  ELSE procs' = [procs EXCEPT ![p].pc = "loop",
                                              ![p].todo = Tail(@)]
       /\ UNCHANGED <<now, fails, db0>>

\* investment.save() of the completion and the filter in memory
\* (lines 1181-1185)
SettleSaveCompleted(p) ==
    LET P == procs[p]
        i == Head(P.todo)
        u == P.investments[i].userId
    IN /\ At(p, "processDailyProfitsAndCommissions", "saveCompleted")
       /\ db' = [db EXCEPT !.investments[i].status = "completed"]
       /\ procs' = [procs EXCEPT ![p].pc = "saveActive",
                                 ![p].investments[i].status = "completed"]
       /\ UNCHANGED <<now, fails, db0>>

\* user.save() of the filtered activeInvestments (line 1186)
SettleSaveActive(p) ==
    LET P == procs[p]
        i == Head(P.todo)
        u == P.investments[i].userId
        left == Without(P.users[u].activeInvestments, i)
    IN /\ At(p, "processDailyProfitsAndCommissions", "saveActive")
       /\ IF Arrays(db.users[u]) # Arrays(P.users[u])
          THEN Respond(p, 500) /\ UNCHANGED db
          ELSE /\ db' = [db EXCEPT !.users[u].activeInvestments = left]
               /\ procs' = [procs EXCEPT
                      ![p].pc = "loop",
                      ![p].todo = Tail(@),
                      ![p].users[u].activeInvestments = left]
       /\ UNCHANGED <<now, fails, db0>>

NextConc ==
    \E p \in Procs :
        \/ WithdrawalFind(p)
        \/ WithdrawalCreate(p)
        \/ WithdrawalSave(p)
        \/ DepositFind(p)
        \/ DepositSave(p)
        \/ DepositFindUser(p)
        \/ DepositSaveUser(p)
        \/ SettleFind(p)
        \/ SettleLoopHead(p)
        \/ SettleFindInviter(p)
        \/ SettleSaveInviter(p)
        \/ SettleSaveInvestment(p)
        \/ SettleSaveUser(p)
        \/ SettleSaveCompleted(p)
        \/ SettleSaveActive(p)

SpecConc == InitConc /\ [][NextConc]_vars

---------------------------------------------------------------------------
(* The configuration singleton: createInitialAdmin at start-up and the
   handlers that read or update the configuration, in flight together on an
   empty database.  Every AdminConfig document takes singletonId 1 by
   default and the field has a unique index (models.js 339-344), so
   AdminConfig.create({}) throws a duplicate key error when a document
   exists. *)

EmptyDb == [FreshDb EXCEPT !.users = <<>>, !.plans = <<>>, !.configs = <<>>]

ConfigReads == {"getAdminConfig", "getDepositConfig"}

ConfigRequests ==
    { [op |-> o, body |-> [isPromotionActive |-> FALSE,
                            commissionOnPlanActivation |-> 10,
                            commissionOnDailyProfit |-> 50]] :
        o \in ConfigReads \cup {"updateAdminConfig", "createInitialAdmin"} }

\* createInitialAdmin runs once, at start-up; the requests come from
\* clients
InitConfig ==
    /\ db = EmptyDb
    /\ now = 0
    /\ fails = 0
    /\ procs \in { [p \in Procs |-> NewProc(f[p])] :
                     f \in { g \in [Procs -> ConfigRequests] :
                               g[2].op # "createInitialAdmin" } }
    /\ db0 = db

\* createInitialAdmin: User.findOne({ isAdmin: true }) and the look-up of
\* the admin's phone number (lines 50-60)
InitialAdminFind(p) ==
    /\ At(p, "createInitialAdmin", "start")
    /\ IF \E u \in Ids(db.users) : db.users[u].isAdmin
       THEN Goto(p, "findConfig")
       ELSE IF \E u \in Ids(db.users) : db.users[u].phoneNumber = AdminPhone
       THEN Respond(p, 0)
       ELSE Goto(p, "createAdmin")
    /\ UNCHANGED <<db, now, fails, db0>>

\* User.create of the initial admin (lines 62-69)
InitialAdminCreate(p) ==
    /\ At(p, "createInitialAdmin", "createAdmin")
    /\ db' = [db EXCEPT !.users =
                 Append(@, NewUser(AdminPhone, AdminVisitorId, TRUE, NoId))]
    /\ Goto(p, "findConfig")
    /\ UNCHANGED <<now, fails, db0>>

\* AdminConfig.findOne() (lines 76-77, 862-864, 884-885, 908-909)
ConfigFind(p) ==
    LET op == procs[p].req.op
    IN /\ \/ op = "createInitialAdmin" /\ procs[p].pc = "findConfig"
          \/ op # "createInitialAdmin" /\ procs[p].pc = "start"
       /\ IF ~HasConfig(db) THEN Goto(p, "create")
          ELSE IF op = "updateAdminConfig" THEN Goto(p, "save")
          ELSE IF op = "createInitialAdmin" THEN Respond(p, 0)
          ELSE Respond(p, 200)
       /\ UNCHANGED <<db, now, fails, db0>>

\* AdminConfig.create({}) (lines 78, 866-868, 887-889, 910); the duplicate
\* key error goes to the catch block of the caller
ConfigCreate(p) ==
    LET op == procs[p].req.op
    IN /\ procs[p].pc = "create"
       /\ IF HasConfig(db)
          THEN Respond(p, 500) /\ UNCHANGED db
          ELSE /\ db' = [db EXCEPT !.configs = Append(@, NewAdminConfig)]
               /\ IF op = "updateAdminConfig" THEN Goto(p, "save")
                  ELSE IF op = "createInitialAdmin" THEN Respond(p, 0)
                  ELSE Respond(p, 200)
       /\ UNCHANGED <<now, fails, db0>>

\* config.save() of updateAdminConfig (lines 914-930)
ConfigSave(p) ==
    LET body == procs[p].req.body
        config == [FindOneConfig(db) EXCEPT
                      !.isPromotionActive = body.isPromotionActive,
                      !.commissionOnPlanActivation =
                          body.commissionOnPlanActivation,
                      !.commissionOnDailyProfit =
                          body.commissionOnDailyProfit]
    IN /\ At(p, "updateAdminConfig", "save")
       /\ IF ~ValidConfig(config) THEN Respond(p, 500) /\ UNCHANGED db
          ELSE db' = [db EXCEPT !.configs[1] = config] /\ Respond(p, 200)
       /\ UNCHANGED <<now, fails, db0>>

NextConfig ==
    \E p \in Procs :
        \/ InitialAdminFind(p)
        \/ InitialAdminCreate(p)
        \/ ConfigFind(p)
        \/ ConfigCreate(p)
        \/ ConfigSave(p)

SpecConfig == InitConfig /\ [][NextConfig]_vars

---------------------------------------------------------------------------
(* Admin requests in flight together on the same pending records *)

\* ConcDb after B has asked to withdraw the 50 left on the balance
RaceDb == requestWithdrawal(ConcDb, UserB, 50, 0).db

\* the admin's requests: all on B's pending deposit and pending withdrawal
RaceRequests ==
    { [op |-> "approveDeposit", userId |-> 1, amount |-> 0,
       id |-> Len(RaceDb.deposits)],
      [op |-> "rejectWithdrawal", userId |-> 1, amount |-> 0,
       id |-> Len(RaceDb.withdrawals)],
      [op |-> "approveWithdrawal", userId |-> 1, amount |-> 0,
       id |-> Len(RaceDb.withdrawals)] }

InitRace ==
    /\ db = RaceDb
    /\ now = TicksPerDay
    /\ fails = 0
    /\ procs \in { [p \in Procs |-> NewProc(f[p])] :
                     f \in [Procs -> RaceRequests] }
    /\ db0 = db

\* approveWithdrawal and rejectWithdrawal up to withdrawal.save()
\* (lines 789-800, 820-831)
WithdrawalFindPending(p) ==
    LET r == procs[p].req
    IN /\ \/ At(p, "approveWithdrawal", "start")
          \/ At(p, "rejectWithdrawal", "start")
       /\ IF r.id \notin Ids(db.withdrawals) THEN Respond(p, 404)
          ELSE IF db.withdrawals[r.id].status # "pending" THEN Respond(p, 400)
          ELSE Goto(p, "saveWithdrawal")
       /\ UNCHANGED <<db, now, fails, db0>>

\* withdrawal.save() of approveWithdrawal and its response (lines 801-805)
WithdrawalSaveApproved(p) ==
    LET r == procs[p].req
    IN /\ At(p, "approveWithdrawal", "saveWithdrawal")
       /\ db' = [db EXCEPT !.withdrawals[r.id].status = "approved",
                           !.withdrawals[r.id].approvalDate = now,
                           !.withdrawals[r.id].adminId = r.userId]
       /\ Respond(p, 200)
       /\ UNCHANGED <<now, fails, db0>>

\* withdrawal.save() of rejectWithdrawal (line 832)
WithdrawalSaveRejected(p) ==
    LET r == procs[p].req
    IN /\ At(p, "rejectWithdrawal", "saveWithdrawal")
       /\ db' = [db EXCEPT !.withdrawals[r.id].status = "rejected",
                           !.withdrawals[r.id].approvalDate = now,
                           !.withdrawals[r.id].adminId = r.userId]
       /\ Goto(p, "findUser")
       /\ UNCHANGED <<now, fails, db0>>

\* User.findById and the refund in memory (lines 835-837)
RefundFindUser(p) ==
    LET r == procs[p].req
        u == db.withdrawals[r.id].userId
    IN /\ At(p, "rejectWithdrawal", "findUser")
       /\ procs' = [procs EXCEPT
              ![p].pc = "saveUser",
              ![p].users = [db.users EXCEPT
                               ![u].balance = @ + db.withdrawals[r.id].amount]]
       /\ UNCHANGED <<db, now, fails, db0>>

\* user.save() of the refund and the response (lines 838-843)
RefundSaveUser(p) ==
    LET r == procs[p].req
        u == db.withdrawals[r.id].userId
        user == procs[p].users[u]
    IN /\ At(p, "rejectWithdrawal", "saveUser")
       /\ IF ~ValidUser(user) THEN Respond(p, 500) /\ UNCHANGED db
          ELSE /\ db' = [db EXCEPT !.users[u].balance = user.balance]
               /\ Respond(p, 200)
       /\ UNCHANGED <<now, fails, db0>>

NextRace ==
    \E p \in Procs :
        \/ DepositFind(p)
        \/ DepositSave(p)
        \/ DepositFindUser(p)
        \/ DepositSaveUser(p)
        \/ WithdrawalFindPending(p)
        \/ WithdrawalSaveApproved(p)
        \/ WithdrawalSaveRejected(p)
        \/ RefundFindUser(p)
        \/ RefundSaveUser(p)

SpecRace == InitRace /\ [][NextRace]_vars

---------------------------------------------------------------------------
(* Vocabulary of the properties *)

Today == StartOfDay(now)

\* the moments of the current calendar day from now on
RestOfDay == { t \in now..(Today + TicksPerDay - 1) : TRUE }

\* the investments a run started now finds and whose owner it does not skip
Settled(d, t) ==
    { i \in Eligible(d, StartOfDay(t)) :
        d.users[d.investments[i].userId].status = "active" }

DailyProfit(d, i) ==
    Pct(d.investments[i].investedAmount, d.investments[i].dailyProfitRate)

RECURSIVE SumProfit(_, _)
SumProfit(d, S) ==
    IF S = {} THEN 0
    ELSE LET i == CHOOSE x \in S : TRUE
         IN DailyProfit(d, i) + SumProfit(d, S \ {i})

\* the run has dealt with investment i: credited today, or retired
Processed(d, i, t) ==
    \/ d.investments[i].lastProfitCreditDate >= StartOfDay(t)
    \/ d.investments[i].status = "completed"

---------------------------------------------------------------------------
(* C1 *)

\* C1: in every reachable state every user has balance >= 0 and
\* bonusBalance >= 0.
C1_NonNegativeBalances ==
    \A u \in Ids(db.users) :
        db.users[u].balance >= 0 /\ db.users[u].bonusBalance >= 0

\* a user who withdrew or invested the whole balance, and an inviter who
\* was paid a commission
C1_Witness ==
    /\ \E u \in Ids(db.users) :
          /\ db.users[u].balance = 0
          /\ \/ db.users[u].withdrawalHistory # <<>>
             \/ db.users[u].activeInvestments # <<>>
    /\ \E u \in Ids(db.users) : db.users[u].bonusBalance > 0

---------------------------------------------------------------------------
(* C2 *)

\* C2: when settlement is invoked twice in a row within one calendar day,
\* every investment credited by the first invocation is left as it is by the
\* second, with no further profit or commission paid for it; and after a
\* first invocation that ran to its end the second changes no document.
C2_SecondRunIsNoOp ==
    \A f \in FailPoints, t2 \in RestOfDay :
        LET r1 == processDailyProfitsAndCommissions(db, f, now).db
            r2 == processDailyProfitsAndCommissions(r1, 0, t2).db
        IN /\ \A i \in Ids(db.investments) :
                r1.audit[i].credited > db.audit[i].credited
                => /\ r2.investments[i] = r1.investments[i]
                   /\ r2.audit[i] = r1.audit[i]
           /\ f = 0 => r2 = r1

\* a first invocation has credited an investment today and paid its commission
C2_Witness ==
    \E i \in Ids(db.investments) :
        /\ db.audit[i].credited = 1
        /\ db.audit[i].commission = 1
        /\ db.investments[i].status = "active"
        /\ db.investments[i].lastProfitCreditDate = Today

---------------------------------------------------------------------------
(* C3 *)

---------------------------------------------------------------------------
(* C4 *)

\* C4: a commission is never paid without its principal credit.  In
\* settlement an investment's commission has reached the inviter only as
\* often as its profit has reached the owner; an activateInvestment call that
\* raises some bonusBalance has succeeded, created the investment and debited
\* the price.
C4_CommissionOnlyWithCredit ==
    /\ \A i \in Ids(db.investments) :
          db.audit[i].commission <= db.audit[i].credited
    /\ \A u \in Customers, amount \in AmountInputs, f \in 0..3 :
          LET r == activateInvestment(db, u, 1, amount, f, now)
          IN (\E v \in Ids(db.users) :
                 r.db.users[v].bonusBalance > db.users[v].bonusBalance)
             => /\ r.code = 201
                /\ Len(r.db.investments) = Len(db.investments) + 1
                /\ r.db.users[u].balance = db.users[u].balance - amount

---------------------------------------------------------------------------
(* C5 *)

\* C5: a persistence failure on one investment does not stop the batch:
\* every other investment the run selected, of an active user, is processed
\* in the same run.
C5_FailureDoesNotStopBatch ==
    \A f \in FailPoints :
        LET st == SettleRun(db, f, now)
        IN \A i \in Settled(db, now) \ {st.failedInv} :
               Processed(st.db, i, now)

---------------------------------------------------------------------------
(* C6 *)

\* C6: when a persistence error keeps an investment's daily profit from
\* reaching the owner's balance, its lastProfitCreditDate is not advanced,
\* and the next invocation on the same day credits it.
C6_FailedCreditStaysEligible ==
    \A f \in FailPoints :
        LET st == SettleRun(db, f, now)
            i == st.failedInv
        IN (st.failed /\ st.db.audit[i].credited = db.audit[i].credited)
           => /\ st.db.investments[i].lastProfitCreditDate
                     = db.investments[i].lastProfitCreditDate
              /\ processDailyProfitsAndCommissions(st.db, 0, now)
                     .db.audit[i].credited = db.audit[i].credited + 1

---------------------------------------------------------------------------
(* C7 *)

\* C7: after a run interrupted between two store writes and a second,
\* complete run on the same day, every investment that was eligible has had
\* its profit credited exactly once and its commission paid exactly once.
C7_ResumeCreditsExactlyOnce ==
    \A f \in FailPoints, t2 \in RestOfDay :
        LET st == SettleRun(db, f, now)
            r2 == processDailyProfitsAndCommissions(st.db, 0, t2).db
        IN st.failed
           => \A i \in Settled(db, now) :
                 /\ r2.audit[i].credited = db.audit[i].credited + 1
                 /\ PaysDailyCommission(db, db.investments[i].userId)
                    => r2.audit[i].commission = db.audit[i].commission + 1

---------------------------------------------------------------------------
(* C8 *)

\* what a request does when it is served alone
Alone(d, req) ==
    CASE req.op = "requestWithdrawal" ->
           requestWithdrawal(d, req.userId, req.amount, 0).db
      [] req.op = "approveDeposit" ->
           approveDeposit(d, req.id, req.userId, 0, now).db
      [] req.op = "processDailyProfitsAndCommissions" ->
           processDailyProfitsAndCommissions(d, 0, now).db

\* C8: when two requests that change one user's balance have both been
\* served, however their steps interleaved, every user's balance is the one
\* that serving the two requests one after the other, in one of the two
\* orders, produces.
C8_BalanceSerializable ==
    (\A p \in Procs : procs[p].pc = "done")
    => \E p, q \in Procs :
          /\ p # q
          /\ \A u \in Ids(db.users) :
                db.users[u].balance
                    = Alone(Alone(db0, procs[p].req), procs[q].req)
                          .users[u].balance

---------------------------------------------------------------------------
(* C9 *)

\* C9: requestWithdrawal with 0 < amount <= balance takes exactly amount from
\* the balance and creates a pending withdrawal; rejectWithdrawal of a
\* pending withdrawal marks it rejected and adds exactly its amount to the
\* owner's balance, so a rejection right after the request restores the
\* balance.
C9_RejectRestoresBalance ==
    /\ \A u \in Ids(db.users), amount \in AmountInputs :
          (0 < amount /\ amount <= db.users[u].balance)
          => LET r == requestWithdrawal(db, u, amount, 0)
             IN /\ r.code = 201
                /\ r.id = Len(db.withdrawals) + 1
                /\ r.db.withdrawals[r.id] = NewWithdrawal(u, amount)
                /\ r.db.users[u].balance = db.users[u].balance - amount
                /\ \A a \in Admins :
                      LET back == rejectWithdrawal(r.db, r.id, a, 0, now)
                      IN /\ back.code = 200
                         /\ back.db.withdrawals[r.id].status = "rejected"
                         /\ back.db.users[u].balance = db.users[u].balance
    /\ \A w \in Ids(db.withdrawals), a \in Admins :
          db.withdrawals[w].status = "pending"
          => LET r == rejectWithdrawal(db, w, a, 0, now)
                 u == db.withdrawals[w].userId
             IN /\ r.code = 200
                /\ r.db.withdrawals[w].status = "rejected"
                /\ r.db.users[u].balance
                       = db.users[u].balance + db.withdrawals[w].amount

\* a withdrawal was requested and rejected, and the owner's balance is what
\* it was before the request
C9_Witness ==
    \E w \in Ids(db.withdrawals) :
        /\ db.withdrawals[w].status = "rejected"
        /\ Len(db0.withdrawals) = 0
        /\ Len(db0.users) >= db.withdrawals[w].userId
        /\ db.users[db.withdrawals[w].userId].balance
               = db0.users[db.withdrawals[w].userId].balance
        /\ db.deposits = db0.deposits
        /\ db.investments = <<>>

---------------------------------------------------------------------------
(* C10 *)

\* C10: a deposit or withdrawal leaves pending once, for approved or
\* rejected, and is never changed after; an approve or reject call on a
\* record that is not pending fails and changes nothing.
C10_Step ==
    /\ \A d \in Ids(db.deposits) :
          /\ db.deposits[d].status # "pending"
             => /\ db'.deposits[d] = db.deposits[d]
                /\ \A a \in Admins, f \in 0..2 :
                      /\ approveDeposit(db, d, a, f, now)
                             = Fail(db, 400, "NotPending")
                      /\ rejectDeposit(db, d, a, f, now)
                             = Fail(db, 400, "NotPending")
          /\ db'.deposits[d].status \in {db.deposits[d].status,
                                         "approved", "rejected"}
    /\ \A w \in Ids(db.withdrawals) :
          /\ db.withdrawals[w].status # "pending"
             => /\ db'.withdrawals[w] = db.withdrawals[w]
                /\ \A a \in Admins, f \in 0..2 :
                      /\ approveWithdrawal(db, w, a, f, now)
                             = Fail(db, 400, "NotPending")
                      /\ rejectWithdrawal(db, w, a, f, now)
                             = Fail(db, 400, "NotPending")
          /\ db'.withdrawals[w].status \in {db.withdrawals[w].status,
                                            "approved", "rejected"}

C10_OneWayTransitions == [][C10_Step]_vars

\* a deposit approved at an earlier moment and a withdrawal that has left
\* pending
C10_Witness ==
    /\ \E d \in Ids(db.deposits) :
          db.deposits[d].status = "approved" /\ db.deposits[d].approvalDate < now
    /\ \E w \in Ids(db.withdrawals) : db.withdrawals[w].status # "pending"

---------------------------------------------------------------------------
(* C11 *)

\* the amounts plan p accepts
InRange(p, amount) ==
    /\ amount > 0
    /\ db.plans[p].isActive
    /\ amount >= db.plans[p].minAmount
    /\ amount <= db.plans[p].maxAmount

\* C11: on an active plan, activateInvestment succeeds when the user's
\* balance equals the price, and whenever the balance is below the price it
\* fails with the insufficient-funds error, whatever store write would have
\* failed, leaving the database as it was: no investment is created and the
\* user's balance and activeInvestments are unchanged.
C11_BalanceBoundary ==
    \A u \in Customers, p \in PlanIds(db), amount \in AmountInputs :
        InRange(p, amount)
        => /\ db.users[u].balance = amount
              => LET r == activateInvestment(db, u, p, amount, 0, now)
                 IN /\ r.code = 201
                    /\ r.db.users[u].balance = 0
                    /\ Len(r.db.investments) = Len(db.investments) + 1
           /\ db.users[u].balance < amount
              => \A f \in 0..3 :
                    activateInvestment(db, u, p, amount, f, now)
                        = Fail(db, 400, "InsufficientFunds")

\* a user has spent a balance equal to the price on an investment, and now
\* holds less than the lowest price
C11_Witness ==
    \E u \in Customers, i \in Ids(db.investments), p \in PlanIds(db) :
        /\ db.investments[i].userId = u
        /\ db.investments[i].investedAmount = db0.users[u].balance
        /\ db.users[u].balance = 0
        /\ db.audit[i].credited = 0
        /\ InRange(p, db.plans[p].minAmount)

---------------------------------------------------------------------------
(* C12 *)

\* C12: an activateInvestment that succeeds takes exactly the price from the
\* user's balance, creates one investment with status active, investedAmount
\* the price, dailyProfitRate the plan's rate at that moment, currentProfit
\* 0, endDate the activation time plus the plan's durationDays and
\* lastProfitCreditDate the activation time, leaves the other investments as
\* they are, and appends the new investment to the user's activeInvestments.
C12_ActivationEffects ==
    \A u \in Customers, p \in PlanIds(db), amount \in AmountInputs :
        LET r == activateInvestment(db, u, p, amount, 0, now)
            id == Len(db.investments) + 1
        IN r.code = 201
           => /\ r.id = id
              /\ r.db.users[u].balance = db.users[u].balance - amount
              /\ r.db.investments
                   = Append(db.investments,
                       [ userId |-> u, planId |-> p,
                         investedAmount |-> amount,
                         dailyProfitRate |-> db.plans[p].dailyProfitRate,
                         currentProfit |-> 0,
                         endDate |-> now + db.plans[p].durationDays
                                             * TicksPerDay,
                         lastProfitCreditDate |-> now,
                         status |-> "active" ])
              /\ r.db.users[u].activeInvestments
                   = Append(db.users[u].activeInvestments, id)

\* an investment activated after midnight while the plan paid another rate
\* than it pays now
C12_Witness ==
    \E i \in Ids(db.investments) :
        LET inv == db.investments[i]
            u == inv.userId
        IN /\ inv.status = "active"
           /\ inv.currentProfit = 0
           /\ inv.lastProfitCreditDate # StartOfDay(inv.lastProfitCreditDate)
           /\ inv.endDate = inv.lastProfitCreditDate
                              + DurationDays * TicksPerDay
           /\ inv.dailyProfitRate # db.plans[inv.planId].dailyProfitRate
           /\ db.users[u].balance = db0.users[u].balance - inv.investedAmount
           /\ db.users[u].activeInvestments = <<i>>

---------------------------------------------------------------------------
(* C13 *)

\* the active investments of user u
ActiveOf(d, u) ==
    { i \in Ids(d.investments) :
        d.investments[i].userId = u /\ d.investments[i].status = "active" }

\* C13: every user has at most one investment with status active, and an
\* activateInvestment by a user who has one fails and changes nothing.
C13_SingleActiveSlot ==
    /\ \A u \in Ids(db.users) : Cardinality(ActiveOf(db, u)) <= 1
    /\ \A u \in Customers, p \in PlanIds(db), amount \in AmountInputs :
          ActiveOf(db, u) # {}
          => LET r == activateInvestment(db, u, p, amount, 0, now)
             IN r.code # 201 /\ r.db = db

---------------------------------------------------------------------------
(* C14 *)

\* C14: activateInvestment with a plan id that does not exist, or with a
\* plan whose isActive is false, fails, whatever the amount and whatever
\* store write would have failed, and leaves the database as it was; a
\* request that carries a plan id and a positive amount is answered 404.
C14_PlanMustBeActive ==
    \A u \in Customers, p \in 0..(Len(db.plans) + 1),
       amount \in AmountInputs, f \in 0..3 :
        (p \notin PlanIds(db) \/ ~db.plans[p].isActive)
        => LET r == activateInvestment(db, u, p, amount, f, now)
           IN /\ r.db = db
              /\ r.code \in {400, 404}
              /\ (p # NoId /\ amount > 0) => r = Fail(db, 404, "NotFound")

\* a plan that took an investment has been deactivated, and a user still
\* holds its price
C14_Witness ==
    \E p \in PlanIds(db), u \in Customers, i \in Ids(db.investments) :
        /\ ~db.plans[p].isActive
        /\ db.investments[i].planId = p
        /\ db.users[u].status = "active"
        /\ db.users[u].balance >= db.plans[p].minAmount

---------------------------------------------------------------------------
(* C15 *)

\* the inviter of u under the inviter-validity rule: the account that owns
\* the referral code u registered with, another account on another device,
\* not blocked; NoId when there is none
ValidInviter(d, u) ==
    LET code == d.users[u].invitedBy
    IN IF /\ code \in Ids(d.users)
          /\ code # u
          /\ d.users[code].visitorId # d.users[u].visitorId
          /\ d.users[code].status = "active"
       THEN code ELSE NoId

\* every bonusBalance of e equals that of d, but v's, which is higher by x
OnlyBonusOf(d, e, v, x) ==
    \A w \in Ids(d.users) :
        e.users[w].bonusBalance
            = d.users[w].bonusBalance + (IF w = v THEN x ELSE 0)

ActivationRate == FindOneConfig(db).commissionOnPlanActivation

\* C15 as claimed: a successful activateInvestment by a user with a valid
\* inviter, while commissionOnPlanActivation > 0, raises the inviter's
\* bonusBalance by exactly price * commissionOnPlanActivation and no other;
\* with rate 0 or no inviter no bonusBalance changes.
C15_ActivationCommission ==
    \A u \in Customers, p \in PlanIds(db), amount \in AmountInputs :
        LET r == activateInvestment(db, u, p, amount, 0, now)
            v == ValidInviter(db, u)
        IN r.code = 201
           => /\ (v # NoId /\ ActivationRate > 0)
                 => OnlyBonusOf(db, r.db, v, Pct(amount, ActivationRate))
              /\ (db.users[u].invitedBy = NoId \/ ActivationRate = 0)
                 => OnlyBonusOf(db, r.db, NoId, 0)

\* C15 as amended: while the promotion is active, a successful
\* activateInvestment by a user with a valid inviter, with
\* commissionOnPlanActivation > 0, raises the inviter's bonusBalance by
\* exactly price * commissionOnPlanActivation, in that request, and no
\* other; when the promotion is not active, the rate is 0 or the user has no
\* inviter, no bonusBalance changes.
C15_ActivationCommissionInPromotion ==
    \A u \in Customers, p \in PlanIds(db), amount \in AmountInputs :
        LET r == activateInvestment(db, u, p, amount, 0, now)
            v == ValidInviter(db, u)
            on == FindOneConfig(db).isPromotionActive
        IN r.code = 201
           => /\ (on /\ v # NoId /\ ActivationRate > 0)
                 => OnlyBonusOf(db, r.db, v, Pct(amount, ActivationRate))
              /\ (~on \/ db.users[u].invitedBy = NoId \/ ActivationRate = 0)
                 => OnlyBonusOf(db, r.db, NoId, 0)

\* C was invited by B and has activated an investment during the promotion:
\* B holds the commission on its price and nothing else
C15_Witness ==
    \E i \in Ids(db.investments) :
        LET u == db.investments[i].userId
            v == ValidInviter(db, u)
        IN /\ v # NoId
           /\ FindOneConfig(db).isPromotionActive
           /\ ActivationRate > 0
           /\ Len(db.investments) = 1
           /\ db.audit[i].commission = 0
           /\ db.users[v].bonusBalance
                = Pct(db.investments[i].investedAmount, ActivationRate)
           /\ db.users[v].bonusBalance > 0

---------------------------------------------------------------------------
(* C16 *)

\* C16: no commission reaches a blocked inviter: an activateInvestment, and
\* a settlement run, leave the bonusBalance of every blocked user as it was.
C16_NoCommissionToBlocked ==
    \A v \in Ids(db.users) :
        db.users[v].status = "blocked"
        => /\ \A u \in Customers, p \in PlanIds(db),
                 amount \in AmountInputs, f \in 0..3 :
                 activateInvestment(db, u, p, amount, f, now)
                     .db.users[v].bonusBalance = db.users[v].bonusBalance
           /\ \A f \in FailPoints :
                 processDailyProfitsAndCommissions(db, f, now)
                     .db.users[v].bonusBalance = db.users[v].bonusBalance

---------------------------------------------------------------------------
(* C17 *)

\* C17: a settlement run, complete or cut short by a store failure, has no
\* effect for an investment whose owner is blocked, also when its endDate
\* has passed: the investment's record and history, the owner's balance and
\* activeInvestments are unchanged, and an inviter all of whose invited
\* investors are blocked keeps the same bonusBalance.
C17_BlockedOwnerSkipped ==
    \A f \in FailPoints :
        LET r == processDailyProfitsAndCommissions(db, f, now).db
            Blocked(i) ==
                db.users[db.investments[i].userId].status = "blocked"
        IN /\ \A i \in Ids(db.investments) :
                Blocked(i)
                => LET u == db.investments[i].userId
                   IN /\ r.investments[i] = db.investments[i]
                      /\ r.audit[i] = db.audit[i]
                      /\ r.users[u].balance = db.users[u].balance
                      /\ r.users[u].activeInvestments
                           = db.users[u].activeInvestments
           /\ \A v \in Ids(db.users) :
                (\A i \in Ids(db.investments) :
                    db.users[db.investments[i].userId].invitedBy = v
                    => Blocked(i))
                => r.users[v].bonusBalance = db.users[v].bonusBalance

\* a run has credited another investment today and has passed over the
\* investment of a blocked owner, whose term has been reached
C17_Witness ==
    \E i, j \in Ids(db.investments) :
        /\ db.users[db.investments[i].userId].status = "blocked"
        /\ db.investments[i].status = "active"
        /\ db.investments[i].endDate <= Today
        /\ db.investments[i].lastProfitCreditDate < Today
        /\ db.audit[i] = NewAudit
        /\ db.investments[j].lastProfitCreditDate = Today
        /\ db.audit[j].credited = 1

---------------------------------------------------------------------------
(* C18 *)

\* C18: a settlement run adds to every eligible investment it processes,
\* expired or not, exactly investedAmount * dailyProfitRate, whatever
\* profit it has accrued, and sets its lastProfitCreditDate to the current
\* day; the owner's balance grows by the same amounts; and at all times an
\* investment's currentProfit is the number of daily profits credited to its
\* owner times investedAmount * dailyProfitRate.
C18_NonCompoundingCredit ==
    /\ LET r == processDailyProfitsAndCommissions(db, 0, now).db
       IN /\ \A i \in Settled(db, now) :
               /\ r.investments[i].currentProfit
                    = db.investments[i].currentProfit + DailyProfit(db, i)
               /\ r.investments[i].lastProfitCreditDate = Today
          /\ \A u \in Ids(db.users) :
               r.users[u].balance
                 = db.users[u].balance
                   + SumProfit(db, { i \in Settled(db, now) :
                                       db.investments[i].userId = u })
    /\ \A i \in Ids(db.investments) :
          db.investments[i].currentProfit
            = db.audit[i].credited * DailyProfit(db, i)

---------------------------------------------------------------------------
(* C19 *)

DailyRate == FindOneConfig(db).commissionOnDailyProfit

\* the investments whose owner a run from d to e credited
CreditedIn(d, e) ==
    { i \in Ids(d.investments) : e.audit[i].credited > d.audit[i].credited }

\* the investments on which a run from d to e paid a commission
CommissionedIn(d, e) ==
    { i \in Ids(d.investments) : e.audit[i].commission > d.audit[i].commission }

\* the commissions on the daily profits of the investments in S
RECURSIVE SumCommission(_, _)
SumCommission(d, S) ==
    IF S = {} THEN 0
    ELSE LET i == CHOOSE x \in S : TRUE
         IN Pct(DailyProfit(d, i), FindOneConfig(d).commissionOnDailyProfit)
            + SumCommission(d, S \ {i})

\* what a settlement run leaves on the users' balances: every commission
\* paid is dailyProfit * commissionOnDailyProfit on the inviter's
\* bonusBalance, and a balance grows by its owner's own profits only
DailyCommissionExact(d, e) ==
    \A v \in Ids(d.users) :
        /\ e.users[v].bonusBalance
             = d.users[v].bonusBalance
               + SumCommission(d, { i \in CommissionedIn(d, e) :
                     d.users[d.investments[i].userId].invitedBy = v })
        /\ e.users[v].balance
             = d.users[v].balance
               + SumProfit(d, { i \in CreditedIn(d, e) :
                                  d.investments[i].userId = v })

\* C19 as stated: whenever settlement credits a daily profit to a user who
\* has a valid inviter and commissionOnDailyProfit > 0, the inviter's
\* bonusBalance grows in that pass by exactly dailyProfit *
\* commissionOnDailyProfit, taken from the day's profit, and the inviter's
\* spendable balance is not touched.
C19_DailyCommission ==
    \A f \in FailPoints :
        LET r == processDailyProfitsAndCommissions(db, f, now).db
        IN /\ \A i \in CreditedIn(db, r) :
                (ValidInviter(db, db.investments[i].userId) # NoId
                 /\ DailyRate > 0)
                => i \in CommissionedIn(db, r)
           /\ DailyCommissionExact(db, r)

\* C19, amended: the same, whenever the promotion is active.
C19_DailyCommissionInPromotion ==
    \A f \in FailPoints :
        LET r == processDailyProfitsAndCommissions(db, f, now).db
        IN /\ \A i \in CreditedIn(db, r) :
                (FindOneConfig(db).isPromotionActive
                 /\ ValidInviter(db, db.investments[i].userId) # NoId
                 /\ DailyRate > 0)
                => i \in CommissionedIn(db, r)
           /\ DailyCommissionExact(db, r)

C19_Witness ==
    \E i \in Ids(db.investments) :
        LET v == ValidInviter(db, db.investments[i].userId)
        IN /\ v # NoId
           /\ FindOneConfig(db).isPromotionActive
           /\ DailyRate > 0
           /\ Len(db.investments) = 1
           /\ db.audit[i].credited = 1
           /\ db.audit[i].commission = 1
           /\ db.users[v].bonusBalance
                = Pct(db.investments[i].investedAmount, ActivationRate)
                  + Pct(DailyProfit(db, i), DailyRate)
           /\ Pct(DailyProfit(db, i), DailyRate) > 0
           /\ db.users[v].balance = db0.users[v].balance

---------------------------------------------------------------------------
(* C20 *)

\* from d to e nothing changed on the balances but c's balance and the
\* bonusBalance of c's direct inviter
SingleLevel(d, e, c) ==
    /\ e.users[c].bonusBalance = d.users[c].bonusBalance
    /\ \A v \in Ids(d.users) \ {c} :
          /\ e.users[v].balance = d.users[v].balance
          /\ v # d.users[c].invitedBy
             => e.users[v].bonusBalance = d.users[v].bonusBalance

\* C20: commission is single-level: an activation by user c, or the
\* settlement of one of c's investments, changes no bonusBalance but that
\* of c's direct inviter; the inviter's inviter keeps balance and
\* bonusBalance, no spendable balance but c's own changes, and c's own
\* bonusBalance does not change.
C20_SingleLevelCommission ==
    \A c \in Customers :
        /\ \A p \in PlanIds(db), amount \in AmountInputs, f \in 0..3 :
              SingleLevel(db, activateInvestment(db, c, p, amount, f, now).db,
                          c)
        /\ \A i \in Eligible(db, Today), f \in FailPoints :
              db.investments[i].userId = c
              => SingleLevel(db, SettleOne(RunState(db, f), i, Today).db, c)

C20_Witness ==
    \E i \in Ids(db.investments) :
        LET c == db.investments[i].userId
            b == db.users[c].invitedBy
            a == IF b \in Ids(db.users) THEN db.users[b].invitedBy ELSE NoId
        IN /\ b \in Ids(db.users)
           /\ a \in Ids(db.users)
           /\ Cardinality({a, b, c}) = 3
           /\ Len(db.investments) = 1
           /\ db.audit[i].credited = 1
           /\ db.audit[i].commission = 1
           /\ db.users[b].bonusBalance
                = Pct(db.investments[i].investedAmount, ActivationRate)
                  + Pct(DailyProfit(db, i), DailyRate)
           /\ db.users[b].bonusBalance > 0
           /\ db.users[a].bonusBalance = 0
           /\ db.users[a].balance = db0.users[a].balance
           /\ db.users[c].bonusBalance = 0

---------------------------------------------------------------------------
(* C21 *)

\* C21: a store write failure inside approveDeposit, requestWithdrawal,
\* rejectWithdrawal or activateInvestment aborts the whole operation: the
\* request that answers 500 leaves the database as it found it, so no
\* deposit is approved without its credit, no withdrawal rejected without its
\* refund, no withdrawal or investment created without its debit.
C21_FailureAbortsWhole ==
    \A f \in 1..3 :
        /\ \A id \in Ids(db.deposits), a \in Admins :
              LET r == approveDeposit(db, id, a, f, now)
              IN r.code = 500 => r.db = db
        /\ \A id \in Ids(db.withdrawals), a \in Admins :
              LET r == rejectWithdrawal(db, id, a, f, now)
              IN r.code = 500 => r.db = db
        /\ \A u \in Customers, amount \in AmountInputs :
              LET r == requestWithdrawal(db, u, amount, f)
              IN r.code = 500 => r.db = db
        /\ \A u \in Customers, p \in PlanIds(db), amount \in AmountInputs :
              LET r == activateInvestment(db, u, p, amount, f, now)
              IN r.code = 500 => r.db = db

---------------------------------------------------------------------------
(* C22 *)

\* C22: an investment's dailyProfitRate is fixed at activation:
\* updateInvestmentPlan changes no investment, and every settlement credit,
\* past or next, of an existing investment is investedAmount times the rate
\* the investment carries, whatever its plan's rate or isActive has become.
C22_RateFixedAtActivation ==
    /\ \A p \in PlanIds(db), body \in PlanInputs, f \in 0..1 :
          LET r == updateInvestmentPlan(db, p, body, f).db
          IN /\ r.investments = db.investments
             /\ Settled(r, now) = Settled(db, now)
             /\ \A i \in Settled(db, now) :
                   processDailyProfitsAndCommissions(r, 0, now)
                       .db.investments[i].currentProfit
                     = db.investments[i].currentProfit
                       + Pct(db.investments[i].investedAmount,
                             db.investments[i].dailyProfitRate)
    /\ \A i \in Ids(db.investments) :
          db.investments[i].currentProfit
            = db.audit[i].marked
              * Pct(db.investments[i].investedAmount,
                    db.investments[i].dailyProfitRate)

C22_Witness ==
    \E i \in Ids(db.investments) :
        LET plan == db.plans[db.investments[i].planId]
        IN /\ plan.dailyProfitRate # db.investments[i].dailyProfitRate
           /\ db.audit[i].marked = 1
           /\ db.investments[i].lastProfitCreditDate = Today
           /\ db.investments[i].currentProfit
                = Pct(db.investments[i].investedAmount,
                      db.investments[i].dailyProfitRate)
           /\ db.investments[i].currentProfit
                # Pct(db.investments[i].investedAmount, plan.dailyProfitRate)

---------------------------------------------------------------------------
(* C23 *)

\* C23: deleteInvestmentPlan fails and leaves the plan in place whenever an
\* active investment references the plan, and every active investment's
\* planId refers to an existing plan.
C23_ActivePlanExists ==
    /\ \A i \in Ids(db.investments) :
          db.investments[i].status = "active"
          => /\ db.investments[i].planId \in PlanIds(db)
             /\ \A f \in 0..1 :
                   LET r == deleteInvestmentPlan(db, db.investments[i].planId,
                                                 f)
                   IN r.code = 400 /\ r.db = db
    /\ \A p \in PlanIds(db), f \in 0..1 :
          LET r == deleteInvestmentPlan(db, p, f)
          IN p \notin PlanIds(r.db)
             => \A i \in Ids(db.investments) :
                   db.investments[i].planId = p
                   => db.investments[i].status = "completed"

\* a plan has been deleted once its investment was completed, and before
\* that an active investment held it
C23_Witness ==
    \E i \in Ids(db.investments) :
        /\ db.investments[i].status = "completed"
        /\ db.investments[i].planId \in db.removed
        /\ db.investments[i].planId \in PlanIds(db0)

---------------------------------------------------------------------------
(* C24 *)

\* C24: active -> completed is one-way: no step changes a completed
\* investment or what was credited for it, and no settlement run, on this
\* day or a later one, whole or cut short by a store failure, changes its
\* status, currentProfit or lastProfitCreditDate or credits its owner or the
\* owner's inviter for it.
C24_Step ==
    \A i \in Ids(db.investments) :
        db.investments[i].status = "completed"
        => /\ db'.investments[i] = db.investments[i]
           /\ db'.audit[i] = db.audit[i]
           /\ \A f \in FailPoints, k \in 0..LaterDays :
                 LET r == processDailyProfitsAndCommissions(db, f,
                              now + k * TicksPerDay).db
                 IN /\ r.investments[i] = db.investments[i]
                    /\ r.audit[i] = db.audit[i]

C24_CompletedIsFinal == [][C24_Step]_vars

\* a completed investment on which a later step of the server was taken
C24_Witness ==
    \E i \in Ids(db.investments) :
        /\ db.investments[i].status = "completed"
        /\ db.audit[i].credited = 1
        /\ db.investments[i].currentProfit = DailyProfit(db, i)
        /\ db.investments[i].lastProfitCreditDate < now
        /\ Len(db.investments) > i

---------------------------------------------------------------------------
(* C25 *)

\* C25: a debit of amount <= 0 or of more than the balance is refused with
\* no change: requestWithdrawal and activateInvestment answer 400 for
\* amount <= 0, requestWithdrawal answers 400 for insufficient funds when
\* amount > balance, and requestWithdrawal of exactly the balance succeeds,
\* creates one pending withdrawal and leaves balance 0.
C25_RefusedDebits ==
    \A u \in Customers, amount \in AmountInputs :
        /\ amount <= 0
           => /\ \A f \in 0..2 :
                    LET r == requestWithdrawal(db, u, amount, f)
                    IN /\ r.code = 400
                       /\ r.error \in {"MissingInput", "InvalidAmount"}
                       /\ r.db = db
              /\ \A p \in 0..(Len(db.plans) + 1), f \in 0..3 :
                    LET r == activateInvestment(db, u, p, amount, f, now)
                    IN /\ r.code = 400
                       /\ r.error \in {"MissingInput", "InvalidAmount"}
                       /\ r.db = db
        /\ (amount > 0 /\ amount > db.users[u].balance)
           => \A f \in 0..2 :
                 requestWithdrawal(db, u, amount, f)
                     = Fail(db, 400, "InsufficientFunds")
        /\ (amount > 0 /\ amount = db.users[u].balance)
           => LET r == requestWithdrawal(db, u, amount, 0)
              IN /\ r.code = 201
                 /\ r.db.users[u].balance = 0
                 /\ Len(r.db.withdrawals) = Len(db.withdrawals) + 1
                 /\ r.db.withdrawals[r.id] = NewWithdrawal(u, amount)

\* a user has withdrawn the whole balance, and a larger or non-positive
\* amount can be asked for in this state
C25_Witness ==
    \E w \in Ids(db.withdrawals) :
        LET u == db.withdrawals[w].userId
        IN /\ db.withdrawals[w].status = "pending"
           /\ db.withdrawals[w].amount = db0.users[u].balance
           /\ db.withdrawals[w].amount > 0
           /\ db.users[u].balance = 0
           /\ Len(db.withdrawals) = Len(db0.withdrawals) + 1
           /\ Len(db.investments) = Len(db0.investments)
           /\ db.deposits = db0.deposits

---------------------------------------------------------------------------
(* C26 *)

\* C26: upgrade succeeds exactly when the user has an active investment, the
\* new plan's price is strictly above its investedAmount and the balance
\* covers the difference; it then debits exactly the difference and changes
\* that investment in place (new plan, new rate, endDate = now + the new
\* plan's duration, lastProfitCreditDate = now) without creating an
\* investment; otherwise it fails with NoActiveInvestment,
\* PlanNotCheaperOrEqual or InsufficientFunds and changes nothing.
C26_UpgradeInPlace ==
    \A u \in Customers, p \in PlanIds(db) :
        LET r == upgradeInvestment(db, u, p, 0, now)
            act == ActiveOf(db, u)
            i == ActiveInvestment(db, u)
            diff == Price(db.plans[p]) - db.investments[i].investedAmount
        IN /\ act = {} => r = Fail(db, 400, "NoActiveInvestment")
           /\ (act # {} /\ diff <= 0)
              => r = Fail(db, 400, "PlanNotCheaperOrEqual")
           /\ (act # {} /\ diff > 0 /\ db.users[u].balance < diff)
              => r = Fail(db, 400, "InsufficientFunds")
           /\ (act # {} /\ diff > 0 /\ db.users[u].balance >= diff)
              => /\ r.code = 200
                 /\ r.db.users[u].balance = db.users[u].balance - diff
                 /\ \A v \in Ids(db.users) \ {u} : r.db.users[v] = db.users[v]
                 /\ r.db.users[u].bonusBalance = db.users[u].bonusBalance
                 /\ Len(r.db.investments) = Len(db.investments)
                 /\ \A j \in Ids(db.investments) \ {i} :
                       r.db.investments[j] = db.investments[j]
                 /\ r.db.investments[i].planId = p
                 /\ r.db.investments[i].dailyProfitRate
                      = db.plans[p].dailyProfitRate
                 /\ r.db.investments[i].endDate
                      = now + db.plans[p].durationDays * TicksPerDay
                 /\ r.db.investments[i].lastProfitCreditDate = now
                 /\ r.db.investments[i].status = "active"
                 /\ r.db.investments[i].userId = u
                 /\ upgradeInvestment(db, u, p, 1, now).db = db

\* an investment bought for 50 and upgraded to the plan of price 100 on a
\* later tick, while another investment exists
C26_Witness ==
    \E i \in Ids(db.investments) :
        LET u == db.investments[i].userId
            p == db.investments[i].planId
        IN /\ p # 1
           /\ db.investments[i].dailyProfitRate = db.plans[p].dailyProfitRate
           /\ db.investments[i].investedAmount = Price(db.plans[p])
           /\ db.users[u].balance = db0.users[u].balance - Price(db.plans[p])
           /\ db.investments[i].lastProfitCreditDate = 1
           /\ db.investments[i].endDate = 1 + DurationDays * TicksPerDay
           /\ Len(db.investments) = 2
           /\ ActiveOf(db, u) = {i}

---------------------------------------------------------------------------
(* C27 *)

\* at most one AdminConfig document exists
ConfigIsSingleton == Len(db.configs) <= 1

\* C27: the configuration is a singleton created lazily: under any
\* interleaving of getAdminConfig, getDepositConfig, updateAdminConfig and
\* createInitialAdmin at most one AdminConfig document exists, and a read
\* that finds none creates it with the default values and returns it, so
\* that every read answers 200 with one document in the store.
C27_LazySingleton ==
    /\ ConfigIsSingleton
    /\ \A p \in Procs :
          (procs[p].req.op \in ConfigReads /\ procs[p].pc = "done")
          => /\ procs[p].code = 200
             /\ Len(db.configs) = 1
             /\ (\A q \in Procs : procs[q].req.op # "updateAdminConfig")
                => FindOneConfig(db) = NewAdminConfig

---------------------------------------------------------------------------
(* C28 *)

BothSettle ==
    \A p \in Procs : procs[p].req.op = "processDailyProfitsAndCommissions"

\* no balance holds more than one daily profit of each investment that was
\* eligible when the two runs began
ProfitAtMostOnce ==
    \A u \in Ids(db.users) :
        db.users[u].balance
          <= db0.users[u].balance
             + SumProfit(db0, { i \in Settled(db0, now) :
                                  db0.investments[i].userId = u })

\* no bonusBalance holds more than one commission for each of them
CommissionAtMostOnce ==
    \A u \in Ids(db.users) :
        db.users[u].bonusBalance
          <= db0.users[u].bonusBalance
             + SumCommission(db0, { i \in Settled(db0, now) :
                   CommissionInviter(db0, db0.investments[i].userId) = u })

\* C28: when two settlement runs are in flight on the same day, their store
\* reads and writes interleaved in any order, each eligible investment's
\* daily profit reaches its owner's balance at most once and its commission
\* the inviter's bonusBalance at most once.
C28_ConcurrentRunsCreditOnce ==
    BothSettle
    => /\ ProfitAtMostOnce
       /\ CommissionAtMostOnce
       /\ \A i \in Ids(db0.investments) :
             db.investments[i].currentProfit
               <= db0.investments[i].currentProfit + DailyProfit(db0, i)

---------------------------------------------------------------------------
(* C29 *)

\* the amounts of the documents S of a collection, added up
RECURSIVE SumAmount(_, _)
SumAmount(coll, S) ==
    IF S = {} THEN 0
    ELSE LET x == CHOOSE y \in S : TRUE
         IN coll[x].amount + SumAmount(coll, S \ {x})

\* the requests on withdrawals
OnWithdrawal == {"approveWithdrawal", "rejectWithdrawal"}

\* two requests aimed at the same pending record
SameRecord(p, q) ==
    /\ procs[p].req.id = procs[q].req.id
    /\ \/ procs[p].req.op = "approveDeposit" /\ procs[q].req.op = "approveDeposit"
       \/ procs[p].req.op \in OnWithdrawal /\ procs[q].req.op \in OnWithdrawal

\* C29: when admin requests on the same pending record interleave, at most
\* one of them takes effect: a deposit's amount is credited at most once, a
\* withdrawal's amount is refunded at most once, and a withdrawal is never
\* both approved for payment and refunded.
C29_OneAdminDecision ==
    /\ \A p, q \in Procs :
          (p # q /\ SameRecord(p, q))
          => ~(procs[p].pc = "done" /\ procs[p].code = 200
               /\ procs[q].pc = "done" /\ procs[q].code = 200)
    /\ \A u \in Ids(db.users) :
          LET Credits ==
                  { d \in Ids(db0.deposits) :
                      /\ db0.deposits[d].userId = u
                      /\ db0.deposits[d].status = "pending"
                      /\ db.deposits[d].status = "approved" }
              Refunds ==
                  { w \in Ids(db0.withdrawals) :
                      /\ db0.withdrawals[w].userId = u
                      /\ db0.withdrawals[w].status = "pending"
                      /\ db.withdrawals[w].status = "rejected" }
          IN db.users[u].balance
               <= db0.users[u].balance + SumAmount(db0.deposits, Credits)
                  + SumAmount(db0.withdrawals, Refunds)

---------------------------------------------------------------------------
(* C30 *)

\* no user's balance or bonusBalance differs between d and e
SameMoney(d, e) ==
    \A v \in Ids(d.users) :
        /\ e.users[v].balance = d.users[v].balance
        /\ e.users[v].bonusBalance = d.users[v].bonusBalance

\* C30: approveDeposit of a pending deposit adds exactly deposit.amount to
\* the balance of the deposit's user and changes no other balance and no
\* bonusBalance; requestDeposit, rejectDeposit and approveWithdrawal change
\* no user's balance or bonusBalance, whether they succeed or fail.
C30_DepositFrame ==
    /\ \A id \in Ids(db.deposits), a \in Admins :
          db.deposits[id].status = "pending"
          => LET r == approveDeposit(db, id, a, 0, now)
                 u == db.deposits[id].userId
             IN /\ r.code = 200
                /\ r.db.users[u].balance
                     = db.users[u].balance + db.deposits[id].amount
                /\ SameMoney(db, [r.db EXCEPT !.users[u].balance =
                                                 db.users[u].balance])
    /\ \A id \in 1..(Len(db.deposits) + 1), a \in Admins, f \in 0..1 :
          SameMoney(db, rejectDeposit(db, id, a, f, now).db)
    /\ \A id \in 1..(Len(db.withdrawals) + 1), a \in Admins, f \in 0..1 :
          SameMoney(db, approveWithdrawal(db, id, a, f, now).db)
    /\ \A u \in Customers, amount \in AmountInputs, f \in 0..2 :
          SameMoney(db, requestDeposit(db, u, amount, f).db)

\* a deposit asked for and approved since the start, its amount on its
\* user's balance and every other balance as it was
C30_Witness ==
    /\ \E id \in Ids(db.deposits) :
          LET u == db.deposits[id].userId
          IN /\ id > Len(db0.deposits)
             /\ db.deposits[id].status = "approved"
             /\ Len(db.investments) = 0
             /\ Len(db.withdrawals) = 0
             /\ Len(db.deposits) = Len(db0.deposits) + 1
             /\ u \in Ids(db0.users)
             /\ db.users[u].balance
                  = db0.users[u].balance + db.deposits[id].amount
             /\ \A v \in Ids(db0.users) \ {u} :
                   db.users[v].balance = db0.users[v].balance

---------------------------------------------------------------------------
(* C31 *)

\* the sum of f over S
RECURSIVE SumOver(_, _)
SumOver(f, S) ==
    IF S = {} THEN 0
    ELSE LET x == CHOOSE y \in S : TRUE
         IN f[x] + SumOver(f, S \ {x})

\* what the ledger says user u's balance is: approved deposits, plus the
\* daily profits credited to u's investments, minus the amounts invested,
\* minus the withdrawals pending or approved
LedgerBalance(d, u) ==
    LET Deps == { x \in Ids(d.deposits) :
                    d.deposits[x].userId = u
                    /\ d.deposits[x].status = "approved" }
        Invs == { i \in Ids(d.investments) : d.investments[i].userId = u }
        Wds == { w \in Ids(d.withdrawals) :
                   d.withdrawals[w].userId = u
                   /\ d.withdrawals[w].status \in {"pending", "approved"} }
    IN SumOver([x \in Deps |-> d.deposits[x].amount], Deps)
       + SumOver([i \in Invs |-> d.investments[i].currentProfit], Invs)
       - SumOver([i \in Invs |-> d.investments[i].investedAmount], Invs)
       - SumOver([w \in Wds |-> d.withdrawals[w].amount], Wds)

\* C31: ledger conservation: after any sequence of operations run one at a
\* time without store failures, each user's balance is the sum of the user's
\* approved deposits plus the daily profits credited to the user's
\* investments, minus the investedAmount of every investment the user
\* activated, completed ones included, minus the user's pending and approved
\* withdrawals.
C31_LedgerConservation ==
    fails = 0
    => \A u \in Ids(db.users) : db.users[u].balance = LedgerBalance(db, u)

\* a user with an approved deposit, a completed investment whose principal
\* stayed out of the balance, and a withdrawal
C31_Witness ==
    /\ fails = 0
    /\ \E i \in Ids(db.investments), w \in Ids(db.withdrawals) :
          LET u == db.investments[i].userId
          IN /\ db.investments[i].status = "completed"
             /\ db.investments[i].currentProfit > 0
             /\ db.withdrawals[w].userId = u
             /\ db.users[u].balance
                  = db0.users[u].balance - db.investments[i].investedAmount
                    + db.investments[i].currentProfit
                    - db.withdrawals[w].amount

---------------------------------------------------------------------------
(* C32 *)

\* the whole days between an investment's lastProfitCreditDate and day t
DaysMissed(d, i, t) ==
    (StartOfDay(t) - StartOfDay(d.investments[i].lastProfitCreditDate))
        \div TicksPerDay

\* C32: one settlement run credits one day's profit per investment however
\* many calendar days have passed since its lastProfitCreditDate: run today
\* or on a later day, after days without a run or after its owner was
\* blocked and unblocked, the run adds investedAmount * dailyProfitRate once
\* to currentProfit and once to the owner's balance for each investment.
C32_NoBackPay ==
    \A k \in 0..LaterDays :
        LET t == now + k * TicksPerDay
            r == processDailyProfitsAndCommissions(db, 0, t).db
        IN /\ \A i \in Settled(db, t) :
                /\ DaysMissed(db, i, t) >= 1
                /\ r.investments[i].currentProfit
                     = db.investments[i].currentProfit + DailyProfit(db, i)
                /\ r.audit[i].credited = db.audit[i].credited + 1
           /\ \A u \in Ids(db.users) :
                r.users[u].balance
                  = db.users[u].balance
                    + SumProfit(db, { i \in Settled(db, t) :
                                        db.investments[i].userId = u })

\* an investment activated on day 0, credited for the first time on day 60
\* and holding one day's profit
C32_Witness ==
    \E i \in Ids(db.investments) :
        /\ db.investments[i].endDate - DurationDays * TicksPerDay
             < TicksPerDay
        /\ db.investments[i].lastProfitCreditDate = DurationDays * TicksPerDay
        /\ db.audit[i].credited = 1
        /\ db.investments[i].currentProfit = DailyProfit(db, i)
        /\ DailyProfit(db, i) > 0


---------------------------------------------------------------------------
(* C33 *)

\* C33: over the whole life of an investment, whatever the days on which
\* settlement is invoked, the number of daily profit credits is at most the
\* plan's durationDays, and currentProfit is at most
\* investedAmount * dailyProfitRate * durationDays.
C33_CreditsWithinTerm ==
    \A i \in Ids(db.investments) :
        LET term == db.plans[db.investments[i].planId].durationDays
        IN /\ db.audit[i].credited <= term
           /\ db.investments[i].currentProfit <= DailyProfit(db, i) * term


---------------------------------------------------------------------------
(* C34 *)

\* the time at which investment i was activated: endDate less the plan's term
ActivatedAt(d, i) ==
    d.investments[i].endDate
    - d.plans[d.investments[i].planId].durationDays * TicksPerDay

\* C34: an investment is never credited on the calendar day it was
\* activated.  Until its first credit its lastProfitCreditDate is the
\* activation time; a settlement run on the activation day leaves the
\* investment unchanged and adds nothing for it to the owner's balance; the
\* first run on a later calendar day credits it for the first time (its owner
\* being active), and every credit it holds was made on a later day.
C34_NoCreditOnActivationDay ==
    \A i \in Ids(db.investments) :
        LET u == db.investments[i].userId
            day0 == StartOfDay(ActivatedAt(db, i))
            r == processDailyProfitsAndCommissions(db, 0, now).db
        IN /\ db.audit[i].credited = 0
                => /\ db.investments[i].lastProfitCreditDate
                        = ActivatedAt(db, i)
                   /\ db.investments[i].currentProfit = 0
           /\ db.audit[i].credited > 0
                => db.investments[i].lastProfitCreditDate > day0
           /\ day0 = Today
                => /\ db.audit[i].credited = 0
                   /\ i \notin Settled(db, now)
                   /\ r.investments[i] = db.investments[i]
                   /\ r.audit[i] = db.audit[i]
                   /\ r.users[u].balance
                        = db.users[u].balance
                          + SumProfit(db, { j \in Settled(db, now) \ {i} :
                                              db.investments[j].userId = u })
           /\ ( /\ db.audit[i].credited = 0
                /\ db.investments[i].status = "active"
                /\ db.users[u].status = "active" )
                => \A k \in 1..LaterDays :
                      LET s == processDailyProfitsAndCommissions(
                                   db, 0, now + k * TicksPerDay).db
                      IN /\ s.audit[i].credited = 1
                         /\ s.investments[i].currentProfit = DailyProfit(db, i)
                         /\ s.investments[i].lastProfitCreditDate
                              = Today + k * TicksPerDay

\* an investment activated today and not credited, while another investment
\* of the same owner has been credited by a run of today
C34_Witness ==
    \E i, j \in Ids(db.investments) :
        /\ i # j
        /\ db.investments[i].userId = db.investments[j].userId
        /\ StartOfDay(ActivatedAt(db, i)) = Today
        /\ db.investments[i].status = "active"
        /\ db.audit[i].credited = 0
        /\ db.investments[j].lastProfitCreditDate = Today
        /\ db.audit[j].credited = 1
        /\ DailyProfit(db, j) > 0


---------------------------------------------------------------------------
(* C35 *)

\* the ids held in a list
Listed(list) == { list[k] : k \in 1..Len(list) }

\* C35: after any sequence of activations and settlement runs served one at
\* a time without store failures, every user's activeInvestments holds
\* exactly the ids of the investments of that user whose status is active,
\* each of them once, and so no id of a completed investment.
C35_ActiveListExact ==
    \A u \in Ids(db.users) :
        /\ Listed(db.users[u].activeInvestments) = ActiveOf(db, u)
        /\ Len(db.users[u].activeInvestments)
             = Cardinality(ActiveOf(db, u))

\* a user holding a completed investment and an active one, after a run has
\* retired the first
C35_Witness ==
    \E u \in Ids(db.users) :
        \E i, j \in Ids(db.investments) :
            /\ db.investments[i].userId = u
            /\ db.investments[j].userId = u
            /\ db.investments[i].status = "completed"
            /\ db.investments[j].status = "active"
            /\ db.users[u].activeInvestments = <<j>>


---------------------------------------------------------------------------
(* C36 *)

\* C36: an administrator account is never blocked: after any sequence of
\* blockUser, unblockUser and registerUser calls every user with isAdmin true
\* has status active, and blockUser on an admin is refused with an
\* authorization error and leaves the database unchanged.
C36_AdminNeverBlocked ==
    /\ \A u \in Ids(db.users) :
          db.users[u].isAdmin => db.users[u].status = "active"
    /\ \A u \in Admins :
          LET r == blockUser(db, u, 0)
          IN r.code = 403 /\ r.db = db


---------------------------------------------------------------------------
(* C37 *)

\* C37: registerUser with a visitorId that an existing user holds creates no
\* user and sets the status of every active user with that visitorId to
\* blocked, leaving everything else as it was; hence no two users share a
\* visitorId, and no user's invitedBy designates the user itself or a user
\* with the same visitorId.
C37_DuplicateDeviceBlocks ==
    /\ \A phone \in Phones, visitor \in DeviceIds, invitedBy \in 0..MaxUsers :
          UsersWithVisitor(db, visitor) # {}
          => LET r == registerUser(db, phone, visitor, invitedBy, 0)
             IN /\ r.code = 403
                /\ Len(r.db.users) = Len(db.users)
                /\ \A u \in Ids(db.users) :
                      r.db.users[u]
                        = IF u \in UsersWithVisitor(db, visitor)
                          THEN [db.users[u] EXCEPT !.status = "blocked"]
                          ELSE db.users[u]
                /\ [r.db EXCEPT !.users = db.users] = db
    /\ \A u, v \in Ids(db.users) :
          u # v => db.users[u].visitorId # db.users[v].visitorId
    /\ \A u \in Ids(db.users) :
          db.users[u].invitedBy # NoId
          => /\ db.users[u].invitedBy # u
             /\ db.users[u].invitedBy \in Ids(db.users)
             /\ db.users[db.users[u].invitedBy].visitorId
                  # db.users[u].visitorId

\* a registration with the admin's visitorId has blocked the admin, the only
\* account blockUser refuses to block, and created nothing beside the two
\* users registered from devices of their own, one of them invited
C37_Witness ==
    /\ fails = 0
    /\ Len(db.users) = MaxUsers
    /\ \E a \in Admins : db.users[a].status = "blocked"
    /\ \E u \in Customers :
          /\ db.users[u].invitedBy # NoId
          /\ db.users[u].status = "active"

============================================================================
